---- MODULE Spec2Model ----
(***************************************************************************)
(* Model of the intelligent support-ticket assignment system               *)
(* (src/ticket_assignment_system.py): the AdvancedTicketAssignmentSystem   *)
(* object, its loader, skill extractor, priority calculator, agent scorer, *)
(* the greedy assignment loop and the analytics pass.                      *)
(*                                                                         *)
(* Numbers that are Python floats in the source are held here as exact     *)
(* rationals <<numerator, denominator>> in lowest terms, so the arithmetic *)
(* is the source's arithmetic without binary rounding.  Texts are strings; *)
(* the `in' operator of Python on strings is substring search.             *)
(***************************************************************************)
EXTENDS Integers, Sequences, FiniteSets, TLC

(***************************************************************************)
(* Exact rational arithmetic standing for Python float arithmetic.         *)
(***************************************************************************)
Abs(x) == IF x < 0 THEN -x ELSE x

RECURSIVE GCD(_, _)
GCD(a, b) == IF b = 0 THEN a ELSE GCD(b, a % b)

Rat(n, d) ==
    IF d = 1 THEN <<n, 1>>
    ELSE LET s == IF d < 0 THEN -1 ELSE 1
             g == GCD(Abs(n), Abs(d))
         IN  <<(s * n) \div g, (s * d) \div g>>

RInt(n) == <<n, 1>>

RAdd(x, y) ==
    IF x[2] = y[2] THEN Rat(x[1] + y[1], x[2])
    ELSE Rat(x[1] * y[2] + y[1] * x[2], x[2] * y[2])

RNeg(x) == <<-x[1], x[2]>>

RSub(x, y) == RAdd(x, RNeg(y))

RMul(x, y) == Rat(x[1] * y[1], x[2] * y[2])

RDiv(x, y) == RMul(x, Rat(y[2], y[1]))

RLt(x, y) == IF x[2] = y[2] THEN x[1] < y[1] ELSE x[1] * y[2] < y[1] * x[2]

RLe(x, y) == ~RLt(y, x)

RMin(x, y) == IF RLt(y, x) THEN y ELSE x

RECURSIVE RSum(_)
RSum(s) == IF s = <<>> THEN RInt(0) ELSE RAdd(Head(s), RSum(Tail(s)))

\* floor(x), for x a rational
RFloor(x) == x[1] \div x[2]

\* round(x, 2) and the format spec .2f : x to the nearest hundredth, a tie
\* going to the even hundredth; the result is an integer count of hundredths.
Round2(x) ==
    LET h == RMul(x, RInt(100))
        f == RFloor(h)
        r == RSub(h, RInt(f))
    IN  IF RLt(r, Rat(1, 2)) THEN f
        ELSE IF RLt(Rat(1, 2), r) THEN f + 1
        ELSE IF f % 2 = 0 THEN f ELSE f + 1

(***************************************************************************)
(* Text: str.lower() and the substring test `keyword in text'.             *)
(***************************************************************************)
UpperAlpha == "ABCDEFGHIJKLMNOPQRSTUVWXYZ"
LowerAlpha == "abcdefghijklmnopqrstuvwxyz"

LowerChar(c) ==
    IF \E i \in 1..26 : SubSeq(UpperAlpha, i, i) = c
    THEN LET i == CHOOSE j \in 1..26 : SubSeq(UpperAlpha, j, j) = c
         IN  SubSeq(LowerAlpha, i, i)
    ELSE c

RECURSIVE Lower(_)
Lower(s) ==
    IF Len(s) = 0 THEN s
    ELSE LowerChar(SubSeq(s, 1, 1)) \o Lower(SubSeq(s, 2, Len(s)))

Contains(keyword, text) ==
    \E i \in 1..(Len(text) - Len(keyword) + 1) :
        SubSeq(text, i, i + Len(keyword) - 1) = keyword

\* f"{title} {description}" of the lower-cased title and description
CombinedText(ticket) == Lower(ticket.title) \o " " \o Lower(ticket.description)

\* sum(1 for keyword in keywords if keyword in combined_text)
RECURSIVE CountMatches(_, _)
CountMatches(keywords, text) ==
    IF keywords = <<>> THEN 0
    ELSE (IF Contains(Head(keywords), text) THEN 1 ELSE 0)
         + CountMatches(Tail(keywords), text)

(***************************************************************************)
(* The skill lexicon of extract_required_skills, in dictionary order.      *)
(***************************************************************************)
skill_keywords ==
  <<
     [skill |-> "Networking", keywords |-> <<"network", "vpn", "connection", "connectivity", "lan", "wan">>],
     [skill |-> "VPN_Troubleshooting", keywords |-> <<"vpn", "tunnel", "remote", "connection dropping">>],
     [skill |-> "Linux_Administration", keywords |-> <<"linux", "ubuntu", "debian", "centos", "bash", "shell">>],
     [skill |-> "Cloud_AWS", keywords |-> <<"aws", "amazon", "ec2", "s3", "lambda">>],
     [skill |-> "Cloud_Azure", keywords |-> <<"azure", "microsoft cloud", "app service">>],
     [skill |-> "Hardware_Diagnostics", keywords |-> <<"hardware", "laptop", "desktop", "pc", "computer", "fan", "battery">>],
     [skill |-> "Windows_Server_2022", keywords |-> <<"windows server", "server 2022", "windows 2022">>],
     [skill |-> "Active_Directory", keywords |-> <<"active directory", "ad", "domain", "ldap", "group policy">>],
     [skill |-> "Microsoft_365", keywords |-> <<"microsoft 365", "m365", "office 365", "outlook", "teams", "sharepoint">>],
     [skill |-> "Network_Security", keywords |-> <<"firewall", "security", "breach", "attack", "vulnerability">>],
     [skill |-> "Database_SQL", keywords |-> <<"database", "sql", "query", "mysql", "postgresql", "mssql">>],
     [skill |-> "SharePoint_Online", keywords |-> <<"sharepoint", "document library", "site collection">>],
     [skill |-> "PowerShell_Scripting", keywords |-> <<"powershell", "ps1", "script">>],
     [skill |-> "Endpoint_Security", keywords |-> <<"endpoint", "antivirus", "malware", "edr">>],
     [skill |-> "DevOps_CI_CD", keywords |-> <<"devops", "ci/cd", "jenkins", "pipeline", "deployment">>],
     [skill |-> "Kubernetes_Docker", keywords |-> <<"kubernetes", "k8s", "docker", "container", "pod">>],
     [skill |-> "Voice_VoIP", keywords |-> <<"voip", "phone", "voice", "telephony", "sip">>],
     [skill |-> "Printer_Troubleshooting", keywords |-> <<"printer", "print", "printing">>],
     [skill |-> "Mac_OS", keywords |-> <<"mac", "macos", "osx", "apple", "macbook">>],
     [skill |-> "SaaS_Integrations", keywords |-> <<"saas", "integration", "api", "webhook", "sso", "saml">>],
     [skill |-> "Phishing_Analysis", keywords |-> <<"phishing", "spam", "suspicious email", "scam">>],
     [skill |-> "SSL_Certificates", keywords |-> <<"ssl", "tls", "certificate", "https", "encryption">>],
     [skill |-> "DNS_Configuration", keywords |-> <<"dns", "domain", "nameserver", "resolution">>],
     [skill |-> "Endpoint_Management", keywords |-> <<"endpoint", "mdm", "intune", "device management">>],
     [skill |-> "Web_Server_Apache_Nginx", keywords |-> <<"apache", "nginx", "web server", "http">>],
     [skill |-> "Firewall_Configuration", keywords |-> <<"firewall", "iptables", "pf", "acl", "rules">>],
     [skill |-> "Identity_Management", keywords |-> <<"identity", "iam", "okta", "auth0", "authentication">>],
     [skill |-> "Laptop_Repair", keywords |-> <<"laptop", "notebook", "screen", "keyboard", "touchpad">>],
     [skill |-> "Network_Cabling", keywords |-> <<"cable", "ethernet", "cat5", "cat6", "rj45">>],
     [skill |-> "Switch_Configuration", keywords |-> <<"switch", "vlan", "trunk", "spanning tree">>],
     [skill |-> "Routing_Protocols", keywords |-> <<"routing", "ospf", "bgp", "eigrp", "route">>],
     [skill |-> "Cisco_IOS", keywords |-> <<"cisco", "ios", "ccna", "router", "switch">>],
     [skill |-> "Antivirus_Malware", keywords |-> <<"antivirus", "malware", "virus", "trojan", "ransomware">>],
     [skill |-> "Security_Audits", keywords |-> <<"audit", "compliance", "assessment", "vulnerability scan">>],
     [skill |-> "SIEM_Logging", keywords |-> <<"siem", "log", "splunk", "elastic", "monitoring">>],
     [skill |-> "ETL_Processes", keywords |-> <<"etl", "extract", "transform", "load", "data pipeline">>],
     [skill |-> "Data_Warehousing", keywords |-> <<"warehouse", "data lake", "bigquery", "redshift">>],
     [skill |-> "PowerBI_Tableau", keywords |-> <<"powerbi", "tableau", "dashboard", "visualization">>],
     [skill |-> "API_Troubleshooting", keywords |-> <<"api", "rest", "graphql", "endpoint", "integration">>],
     [skill |-> "Software_Licensing", keywords |-> <<"license", "activation", "subscription", "seat">>],
     [skill |-> "Virtualization_VMware", keywords |-> <<"vmware", "virtual", "vm", "esxi", "vcenter">>],
     [skill |-> "Python_Scripting", keywords |-> <<"python", "py", "script", "automation">>]
  >>

\* list(skill_keywords.keys())
SkillOrder == [i \in 1..Len(skill_keywords) |-> skill_keywords[i].skill]

\* The keys of a skill mapping as a list, in the order the dictionary holds
\* them (the order of insertion, which is the lexicon's order).
SkillList(mapping) == SelectSeq(SkillOrder, LAMBDA s : s \in DOMAIN mapping)

\* seq[:n]
Take(seq, n) == SubSeq(seq, 1, IF Len(seq) < n THEN Len(seq) ELSE n)

(***************************************************************************)
(* Bounds and the inputs drawn within them.                                *)
(***************************************************************************)
MaxAgents  == 2
MaxTickets == 2
MaxTicks   == 1

\* The clock reading at construction and the step of one tick, in seconds.
StartTime   == 10 * 86400
TickSeconds == 60 * 60

\* Agent records as a dataset file may hold them.
AgentPool ==
    { [agent_id |-> "agent_001", name |-> "Alice",
       skills |-> [Networking |-> 9, VPN_Troubleshooting |-> 7],
       experience_level |-> 10, availability_status |-> "Available",
       current_load |-> 0],
      [agent_id |-> "agent_002", name |-> "Bob",
       skills |-> [Printer_Troubleshooting |-> 8, Networking |-> 3],
       experience_level |-> 5, availability_status |-> "Busy",
       current_load |-> 0],
      [agent_id |-> "", name |-> "Carol",
       skills |-> [Networking |-> 9, VPN_Troubleshooting |-> 7],
       experience_level |-> 10, availability_status |-> "Available",
       current_load |-> 0],
      [agent_id |-> "agent_002", name |-> "Alice",
       skills |-> <<>>,
       experience_level |-> 0, availability_status |-> "Available",
       current_load |-> 600],
      [agent_id |-> "agent_003", name |-> "Dave",
       skills |-> <<>>,
       experience_level |-> 0, availability_status |-> "OnLeave",
       current_load |-> 17] }

\* Ticket records as a dataset file may hold them.
TicketPool ==
    { [ticket_id |-> "TKT-1", title |-> "Network down",
       description |-> "network down for everyone, production outage",
       creation_timestamp |-> StartTime - 2 * 86400],
      [ticket_id |-> "TKT-2", title |-> "Printer",
       description |-> "printer out of paper",
       creation_timestamp |-> StartTime + 86400],
      [ticket_id |-> "TKT-3", title |-> "Hi",
       description |-> "",
       creation_timestamp |-> StartTime + 86400],
      [ticket_id |-> "TKT-1", title |-> "VPN Error",
       description |-> "Unable to connect",
       creation_timestamp |-> StartTime - 43200] }

\* Agents and tickets for generate_analytics alone.  The agents hold
\* Database_SQL, Networking and Python_Scripting at levels around 7; one
\* ticket requires twelve skills, the others one or two.
MaxSkilled == 3
MaxDemand  == 3

SkilledAgents ==
    { [agent_id |-> "agent_011", name |-> "Erin",
       skills |-> [Database_SQL |-> 9, Networking |-> 7, Python_Scripting |-> 7],
       experience_level |-> 7, availability_status |-> "Available", current_load |-> 0],
      [agent_id |-> "agent_012", name |-> "Frank",
       skills |-> [Database_SQL |-> 7, Networking |-> 6, Python_Scripting |-> 8],
       experience_level |-> 4, availability_status |-> "Available", current_load |-> 0],
      [agent_id |-> "agent_013", name |-> "Grace",
       skills |-> [Database_SQL |-> 8, Networking |-> 9],
       experience_level |-> 9, availability_status |-> "Busy", current_load |-> 0],
      [agent_id |-> "agent_014", name |-> "Heidi",
       skills |-> [Database_SQL |-> 6, Networking |-> 7],
       experience_level |-> 2, availability_status |-> "Available", current_load |-> 0] }

DemandTickets ==
    { [ticket_id |-> "TKT-11", title |-> "Office move",
       description |-> "network database printer aws linux laptop outlook firewall docker phone",
       creation_timestamp |-> StartTime],
      [ticket_id |-> "TKT-12", title |-> "Report", description |-> "database sql",
       creation_timestamp |-> StartTime],
      [ticket_id |-> "TKT-13", title |-> "Wifi", description |-> "network",
       creation_timestamp |-> StartTime],
      [ticket_id |-> "TKT-14", title |-> "Job", description |-> "python script",
       creation_timestamp |-> StartTime] }

\* the lists of up to n different elements of S
DistinctSeqsUpTo(S, n) ==
    UNION {{s \in [1..k -> S] : \A i, j \in 1..k : i # j => s[i] # s[j]} : k \in 0..n}

SeqsUpTo(S, n) == UNION {[1..k -> S] : k \in 0..n}

\* The parsed content of a dataset file: data['agents'], data['tickets'].
Datasets == [agents : SeqsUpTo(AgentPool, MaxAgents),
             tickets : SeqsUpTo(TicketPool, MaxTickets)]

\* The parsed content of a dataset file for generate_analytics alone.
DemandDatasets == [agents : DistinctSeqsUpTo(SkilledAgents, MaxSkilled),
                   tickets : DistinctSeqsUpTo(DemandTickets, MaxDemand)]

(***************************************************************************)
(* _load_config: the default configuration.                                *)
(***************************************************************************)
default_config ==
    [max_load_per_agent |-> 10,
     skill_match_weight |-> Rat(4, 10),
     experience_weight  |-> Rat(2, 10),
     workload_weight    |-> Rat(2, 10),
     priority_weight    |-> Rat(2, 10),
     critical_keywords  |-> <<"critical", "urgent", "down", "outage", "security",
                              "breach", "attack", "production", "business-critical">>,
     high_priority_keywords |-> <<"failing", "error", "unable", "blocked", "stopped">>]

\* Python's None
None == "<None>"

\* default_config.update(user_config)
Update(config_dict, user_config) ==
    [k \in DOMAIN config_dict \cup DOMAIN user_config |->
        IF k \in DOMAIN user_config THEN user_config[k] ELSE config_dict[k]]

\* What a configuration file that parses may hold.
UserConfigs == {<<>>, [max_load_per_agent |-> 5]}

\* The file at config_path: not there, there but not to be opened, there but
\* not JSON, or there and holding a dictionary.
ConfigFiles ==
    {[kind |-> "missing"], [kind |-> "unreadable"], [kind |-> "malformed"]}
    \cup {[kind |-> "json", user_config |-> u] : u \in UserConfigs}

\* _load_config(config_path), config_path being a non-empty path: what it
\* raises, if anything, and what it returns otherwise.
_load_config(file) ==
    IF file.kind = "missing" THEN [raises |-> None, config |-> default_config]
    ELSE IF file.kind = "unreadable" THEN [raises |-> "PermissionError"]
    ELSE IF file.kind = "malformed" THEN [raises |-> "JSONDecodeError"]
    ELSE [raises |-> None, config |-> Update(default_config, file.user_config)]

(***************************************************************************)
(* extract_required_skills                                                 *)
(***************************************************************************)
\* The body after the cache test: for each skill of the lexicon the number of
\* its keywords found in the text; a skill with a positive count gets
\* min(count / len(keywords), 1.0).
LexiconScan(ticket) ==
    LET text  == CombinedText(ticket)
        score == [i \in 1..Len(skill_keywords) |->
                     CountMatches(skill_keywords[i].keywords, text)]
        hit   == {i \in 1..Len(skill_keywords) : score[i] > 0}
    IN  [s \in {skill_keywords[i].skill : i \in hit} |->
            LET i == CHOOSE j \in hit : skill_keywords[j].skill = s
            IN  RMin(Rat(score[i], Len(skill_keywords[i].keywords)), RInt(1))]

\* LexiconScan tabulated over the tickets a dataset can hold, so that each
\* text is scanned once.
RequiredSkillsOf == [t \in TicketPool \cup DemandTickets |-> LexiconScan(t)]

ComputeRequiredSkills(ticket) == RequiredSkillsOf[ticket]

\* A faulty cache test: the cache is never found to hold the ticket.
CacheHit_Never(cache, ticket) == FALSE

\* if ticket['ticket_id'] in self.skill_requirements_cache
CacheHit(cache, ticket) == ticket.ticket_id \in DOMAIN cache

\* The value extract_required_skills returns.
ExtractResult(cache, ticket) ==
    IF CacheHit(cache, ticket) THEN cache[ticket.ticket_id]
    ELSE ComputeRequiredSkills(ticket)

\* skill_requirements_cache after the call.
ExtractCache(cache, ticket) ==
    IF CacheHit(cache, ticket) THEN cache
    ELSE [id \in DOMAIN cache \cup {ticket.ticket_id} |->
             IF id = ticket.ticket_id THEN ComputeRequiredSkills(ticket)
             ELSE cache[id]]

(***************************************************************************)
(* calculate_ticket_priority                                               *)
(***************************************************************************)
security_keywords == <<"breach", "attack", "phishing", "malware", "virus",
                       "unauthorized", "suspicious", "security">>

\* Faulty thresholds: a score on a bound falls into the level below.
UrgencyLevel_Exclusive(priority_score) ==
    IF RLt(RInt(20), priority_score) THEN "CRITICAL"
    ELSE IF RLt(RInt(15), priority_score) THEN "HIGH"
    ELSE IF RLt(RInt(10), priority_score) THEN "MEDIUM"
    ELSE "LOW"

\* lines 226-233
UrgencyLevel(priority_score) ==
    IF RLe(RInt(20), priority_score) THEN "CRITICAL"
    ELSE IF RLe(RInt(15), priority_score) THEN "HIGH"
    ELSE IF RLe(RInt(10), priority_score) THEN "MEDIUM"
    ELSE "LOW"

BusinessImpact(text) ==
    IF Contains("production", text) \/ Contains("business-critical", text) THEN Rat(10, 10)
    ELSE IF Contains("public", text) \/ Contains("customer", text) THEN Rat(8, 10)
    ELSE IF Contains("internal", text) \/ Contains("employee", text) THEN Rat(5, 10)
    ELSE Rat(3, 10)

AffectedUsers(text) ==
    IF Contains("all", text) \/ Contains("everyone", text) \/ Contains("company", text) THEN 100
    ELSE IF Contains("department", text) \/ Contains("team", text) \/ Contains("multiple", text) THEN 20
    ELSE IF Contains("group", text) THEN 10
    ELSE 1

\* A faulty score: the critical keywords are taken off instead of added.
PriorityScore_CriticalSubtracted(critical_count, high_priority_count, business_impact, affected_users, security_risk, time_urgency) ==
    RSum(<< RInt(0 - critical_count * 10),
            RInt(high_priority_count * 5),
            RMul(business_impact, RInt(8)),
            Rat(affected_users, 10),
            RMul(security_risk, RInt(9)),
            RMul(time_urgency, RInt(3)) >>)

\* priority_score from its six inputs (lines 217-224)
PriorityScore(critical_count, high_priority_count, business_impact, affected_users, security_risk, time_urgency) ==
    RSum(<< RInt(critical_count * 10),
            RInt(high_priority_count * 5),
            RMul(business_impact, RInt(8)),
            Rat(affected_users, 10),
            RMul(security_risk, RInt(9)),
            RMul(time_urgency, RInt(3)) >>)

\* The inputs of the score that are read off the text (lines 178-211).
TextFactors(cfg, ticket) ==
    LET text == CombinedText(ticket)
        security_count == CountMatches(security_keywords, text)
    IN  [critical_count      |-> CountMatches(cfg.critical_keywords, text),
         high_priority_count |-> CountMatches(cfg.high_priority_keywords, text),
         business_impact     |-> BusinessImpact(text),
         affected_users      |-> AffectedUsers(text),
         security_risk       |-> RMin(Rat(security_count, Len(security_keywords)), RInt(1))]

\* the configurations in use
Configs == {Update(default_config, u) : u \in UserConfigs}

\* Tickets for calculate_ticket_priority alone: a text that matches 'internal'
\* and 'group' followed by the first k critical keywords and the first h
\* high-priority keywords of the default configuration (none of which is read
\* by another factor), created a day or more before the clock's first
\* reading, an hour before it, at it, or an hour after it.
MaxCritical == 2
MaxHigh     == 3

\* the words of a list, each after a blank
RECURSIVE Words(_)
Words(seq) == IF seq = <<>> THEN "" ELSE " " \o Head(seq) \o Words(Tail(seq))

PriorityTexts ==
    {"internal group" \o Words(Take(default_config.critical_keywords, k))
                      \o Words(Take(default_config.high_priority_keywords, h)) :
        k \in 0..MaxCritical, h \in 0..MaxHigh}

PriorityPool ==
    {[ticket_id |-> "TKT-1", title |-> "", description |-> text,
      creation_timestamp |-> created] :
        text \in PriorityTexts,
        created \in {StartTime - 2 * 86400, StartTime - TickSeconds, StartTime,
                     StartTime + TickSeconds}}

TextFactorsOf ==
    [cfg \in Configs, t \in TicketPool \cup PriorityPool \cup DemandTickets |->
        TextFactors(cfg, t)]

\* now is the value of datetime.now().timestamp(), in seconds
calculate_ticket_priority(cfg, ticket, now) ==
    LET f              == TextFactorsOf[cfg, ticket]
        age_hours      == Rat(now - ticket.creation_timestamp, 3600)
        time_urgency   == RMin(RDiv(age_hours, RInt(24)), RInt(1))
        priority_score == PriorityScore(f.critical_count, f.high_priority_count,
                                        f.business_impact, f.affected_users,
                                        f.security_risk, time_urgency)
    IN  [ticket_id       |-> ticket.ticket_id,
         priority_score  |-> priority_score,
         urgency_level   |-> UrgencyLevel(priority_score),
         business_impact |-> f.business_impact,
         affected_users  |-> f.affected_users,
         security_risk   |-> f.security_risk]

\* A faulty __lt__: the comparison the other way round (a min-heap by score).
TicketPriorityLt_Ascending(self, other) == RLt(self.priority_score, other.priority_score)

\* TicketPriority.__lt__
TicketPriorityLt(self, other) == RLt(other.priority_score, self.priority_score)

(***************************************************************************)
(* heapq.heappush / heapq.heappop over TicketPriority items, as CPython's  *)
(* heapq does them, with positions counted from 0 as in the library and    *)
(* the comparisons made by TicketPriority.__lt__.                          *)
(***************************************************************************)
RECURSIVE SiftDown(_, _, _, _)
SiftDown(heap, startpos, pos, newitem) ==
    IF pos > startpos
    THEN LET parentpos == (pos - 1) \div 2
             parent    == heap[parentpos + 1]
         IN  IF TicketPriorityLt(newitem, parent)
             THEN SiftDown([heap EXCEPT ![pos + 1] = parent], startpos, parentpos, newitem)
             ELSE [heap EXCEPT ![pos + 1] = newitem]
    ELSE [heap EXCEPT ![pos + 1] = newitem]

RECURSIVE SiftUpLoop(_, _, _)
SiftUpLoop(heap, pos, childpos) ==
    IF childpos < Len(heap)
    THEN LET rightpos == childpos + 1
             c == IF /\ rightpos < Len(heap)
                     /\ ~TicketPriorityLt(heap[childpos + 1], heap[rightpos + 1])
                  THEN rightpos ELSE childpos
         IN  SiftUpLoop([heap EXCEPT ![pos + 1] = heap[c + 1]], c, 2 * c + 1)
    ELSE <<heap, pos>>

SiftUp(heap, pos) ==
    LET newitem == heap[pos + 1]
        r       == SiftUpLoop(heap, pos, 2 * pos + 1)
    IN  SiftDown(r[1], pos, r[2], newitem)

heappush(heap, item) == SiftDown(Append(heap, item), 0, Len(heap), item)

\* the item heappop returns
HeappopItem(heap) == heap[1]

\* A faulty heappop: the last element is removed but never put at the root,
\* so the root stays in the heap.
HeappopRest_RootKept(heap) == SubSeq(heap, 1, Len(heap) - 1)

\* the heap heappop leaves
HeappopRest(heap) ==
    LET lastelt == heap[Len(heap)]
        rest    == SubSeq(heap, 1, Len(heap) - 1)
    IN  IF rest # <<>> THEN SiftUp([rest EXCEPT ![1] = lastelt], 0) ELSE rest

(***************************************************************************)
(* calculate_agent_score                                                   *)
(***************************************************************************)
\* A faulty skill match: nothing required counts as no match at all.
SkillMatchScore_NeutralZero(agent, required_skills) ==
    LET held  == SelectSeq(SkillList(required_skills),
                           LAMBDA s : s \in DOMAIN agent.skills)
        terms == [i \in 1..Len(held) |->
                     RMul(RInt(agent.skills[held[i]]), required_skills[held[i]])]
    IN  IF DOMAIN required_skills # {}
        THEN RDiv(RSum(terms), RInt(Cardinality(DOMAIN required_skills)))
        ELSE RInt(0)

\* Sum over the required skills the agent holds of level * importance,
\* divided by the number of required skills; 5 when nothing is required.
SkillMatchScore(agent, required_skills) ==
    LET held  == SelectSeq(SkillList(required_skills),
                           LAMBDA s : s \in DOMAIN agent.skills)
        terms == [i \in 1..Len(held) |->
                     RMul(RInt(agent.skills[held[i]]), required_skills[held[i]])]
    IN  IF DOMAIN required_skills # {}
        THEN RDiv(RSum(terms), RInt(Cardinality(DOMAIN required_skills)))
        ELSE RInt(5)

ExperienceScore(agent) ==
    RMul(RMin(Rat(agent.experience_level, 10), RInt(1)), RInt(10))

\* A faulty workload score: the load ratio taken from 0 instead of 1.
WorkloadScore_FromZero(cfg, agent) ==
    RMul(RSub(RInt(0), Rat(agent.current_load, cfg.max_load_per_agent)), RInt(10))

WorkloadScore(cfg, agent) ==
    RMul(RSub(RInt(1), Rat(agent.current_load, cfg.max_load_per_agent)), RInt(10))

PriorityCapability(agent, ticket_priority) ==
    IF ticket_priority.urgency_level = "CRITICAL" /\ agent.experience_level >= 8 THEN 10
    ELSE IF ticket_priority.urgency_level = "HIGH" /\ agent.experience_level >= 6 THEN 8
    ELSE IF ticket_priority.urgency_level = "MEDIUM" /\ agent.experience_level >= 4 THEN 6
    ELSE 5

PerformanceScore(history, agent) ==
    IF agent.agent_id \in DOMAIN history /\ history[agent.agent_id].total > 0
    THEN RMul(Rat(history[agent.agent_id].resolved, history[agent.agent_id].total), RInt(10))
    ELSE RInt(5)

\* final_score before the penalties (lines 285-291)
WeightedSum(cfg, history, agent, required_skills, ticket_priority) ==
    RSum(<< RMul(SkillMatchScore(agent, required_skills), cfg.skill_match_weight),
            RMul(ExperienceScore(agent), cfg.experience_weight),
            RMul(WorkloadScore(cfg, agent), cfg.workload_weight),
            RMul(RInt(PriorityCapability(agent, ticket_priority)), cfg.priority_weight),
            RMul(PerformanceScore(history, agent), Rat(1, 10)) >>)

\* Faulty penalties: the load test made an elif of the availability test, so
\* that at most one penalty applies.
ApplyPenalties_Exclusive(cfg, agent, final_score) ==
    IF agent.availability_status # "Available" THEN RMul(final_score, Rat(1, 10))
    ELSE IF agent.current_load >= cfg.max_load_per_agent THEN RMul(final_score, Rat(1, 100))
    ELSE final_score

\* the two penalties (lines 293-297)
ApplyPenalties(cfg, agent, final_score) ==
    LET s1 == IF agent.availability_status # "Available"
              THEN RMul(final_score, Rat(1, 10)) ELSE final_score
    IN  IF agent.current_load >= cfg.max_load_per_agent
        THEN RMul(s1, Rat(1, 100)) ELSE s1

\* required_skills is what extract_required_skills(ticket) returned
calculate_agent_score(cfg, history, agent, required_skills, ticket_priority) ==
    ApplyPenalties(cfg, agent,
                   WeightedSum(cfg, history, agent, required_skills, ticket_priority))

(***************************************************************************)
(* String building for the rationale.                                      *)
(***************************************************************************)
\* ', '.join(parts)
RECURSIVE Join(_)
Join(parts) ==
    IF parts = <<>> THEN ""
    ELSE IF Len(parts) = 1 THEN parts[1]
    ELSE parts[1] \o ", " \o Join(Tail(parts))

\* f"{x:.2f}"
Fmt2(x) ==
    LET h  == Abs(Round2(x))
        fp == h % 100
    IN  (IF RLt(x, RInt(0)) THEN "-" ELSE "")
        \o ToString(h \div 100) \o "."
        \o (IF fp < 10 THEN "0" ELSE "") \o ToString(fp)

\* round(x, 2)
RoundTo2(x) == Rat(Round2(x), 100)

(***************************************************************************)
(* Python values: truthiness of an identifier, dictionaries.               *)
(***************************************************************************)
\* `if v:' for v None or a string
Truthy(v) == v # None /\ v # ""

\* A dictionary is held as the sequence of its values in insertion order;
\* every value carries its own key (agent_id, ticket_id).
RECURSIVE AgentsDict(_)
AgentsDict(list) ==
    IF list = <<>> THEN <<>>
    ELSE LET d    == AgentsDict(SubSeq(list, 1, Len(list) - 1))
             a    == list[Len(list)]
             same == {i \in 1..Len(d) : d[i].agent_id = a.agent_id}
         IN  IF same # {} THEN [i \in 1..Len(d) |-> IF i \in same THEN a ELSE d[i]]
             ELSE Append(d, a)

RECURSIVE TicketsDict(_)
TicketsDict(list) ==
    IF list = <<>> THEN <<>>
    ELSE LET d    == TicketsDict(SubSeq(list, 1, Len(list) - 1))
             t    == list[Len(list)]
             same == {i \in 1..Len(d) : d[i].ticket_id = t.ticket_id}
         IN  IF same # {} THEN [i \in 1..Len(d) |-> IF i \in same THEN t ELSE d[i]]
             ELSE Append(d, t)

\* d[key]
AgentAt(d, id)  == d[CHOOSE i \in 1..Len(d) : d[i].agent_id = id]
TicketAt(d, id) == d[CHOOSE i \in 1..Len(d) : d[i].ticket_id = id]

\* d[key] = value for a sequence-held dictionary of agents
AgentPut(d, id, value) == [i \in 1..Len(d) |-> IF d[i].agent_id = id THEN value ELSE d[i]]

(***************************************************************************)
(* State.                                                                  *)
(***************************************************************************)
VARIABLES
    agents,                   \* self.agents
    tickets,                  \* self.tickets
    assignments,              \* self.assignments
    config,                   \* self.config
    skill_requirements_cache, \* self.skill_requirements_cache
    agent_performance_history,\* self.agent_performance_history
    clock,                    \* the last reading of datetime.now()
    pc,                       \* where control is: "idle" outside any method
    ticket_priorities,        \* assign_tickets: the heap
    enqueued,                 \* assign_tickets: tickets pushed so far
    ticket_priority,          \* assign_tickets: the item popped
    best_agent_id,            \* assign_tickets: local
    best_score,               \* assign_tickets: local
    agent_scores,             \* assign_tickets: local
    agent_id,                 \* assign_tickets: the agent loop's variable
    scanned,                  \* assign_tickets: agents scored for this ticket
    loads,                    \* calls of load_data completed
    runs,                     \* calls of assign_tickets completed
    computations,             \* per ticket id, times the lexicon was evaluated
    called,                   \* the public method entered last
    returned,                 \* what that call returned; None while it runs
    main,                     \* run_system.main: its arguments and where it is
    files                     \* the files save_results has written, by name

object == <<agents, tickets, assignments, config, skill_requirements_cache,
            agent_performance_history>>
locals == <<ticket_priorities, enqueued, ticket_priority, best_agent_id,
            best_score, agent_scores, agent_id, scanned>>
result == <<called, returned>>
system == <<object, clock, pc, locals, loads, runs, computations, result>>
vars   == <<system, main, files>>

\* the object is used directly: run_system.main is not running
NotRunning == [at |-> "off"]

\* the value of the local ticket_priority before the first heappop binds it
NoItem == [ticket_id |-> None]

\* __init__
NewObject ==
    /\ agents = <<>>
    /\ tickets = <<>>
    /\ assignments = <<>>
    /\ config = default_config
    /\ skill_requirements_cache = <<>>
    /\ agent_performance_history = <<>>
    /\ clock = StartTime
    /\ pc = "idle"
    /\ ticket_priorities = <<>>
    /\ enqueued = 0
    /\ ticket_priority = NoItem
    /\ best_agent_id = None
    /\ best_score = RInt(-1)
    /\ agent_scores = <<>>
    /\ agent_id = None
    /\ scanned = 0
    /\ loads = 0
    /\ runs = 0
    /\ computations = <<>>
    /\ called = None
    /\ returned = None

\* an object constructed without a configuration file, used directly
Init == NewObject /\ main = NotRunning /\ files = <<>>

\* What a call of datetime.now() can read when the last reading was c: time
\* does not run backwards, and it may have moved on by a tick.
Readings(c) ==
    {c} \cup (IF c < StartTime + MaxTicks * TickSeconds THEN {c + TickSeconds} ELSE {})

\* computations after one call of extract_required_skills(ticket)
Counted(cache, ticket) ==
    IF CacheHit(cache, ticket) THEN computations
    ELSE [id \in DOMAIN computations \cup {ticket.ticket_id} |->
             IF id = ticket.ticket_id
             THEN (IF id \in DOMAIN computations THEN computations[id] ELSE 0) + 1
             ELSE computations[id]]

\* load_data(file_path), data being the parsed file
LoadData(data) ==
    /\ pc = "idle"
    /\ agents' = [i \in 1..Len(AgentsDict(data.agents)) |->
                     [assigned_tickets |-> <<>>, current_priority_load |-> RInt(0)]
                     @@ AgentsDict(data.agents)[i]]
    /\ tickets' = TicketsDict(data.tickets)
    /\ loads' = loads + 1
    /\ called' = "load_data"
    /\ returned' = None
    /\ UNCHANGED <<assignments, config, skill_requirements_cache,
                   agent_performance_history, clock, pc, locals, runs,
                   computations>>

(***************************************************************************)
(* assign_tickets                                                          *)
(***************************************************************************)
\* entry: ticket_priorities = []
AssignStart ==
    /\ pc = "idle"
    /\ ticket_priorities' = <<>>
    /\ enqueued' = 0
    /\ pc' = "enqueue"
    /\ called' = "assign_tickets"
    /\ returned' = None
    /\ UNCHANGED <<object, clock, ticket_priority, best_agent_id, best_score,
                   agent_scores, agent_id, scanned, loads, runs, computations>>

\* one iteration of the loop of lines 306-308
Enqueue ==
    /\ pc = "enqueue"
    /\ enqueued < Len(tickets)
    /\ \E now \in Readings(clock) :
           /\ clock' = now
           /\ ticket_priorities' =
                  heappush(ticket_priorities,
                           calculate_ticket_priority(config, tickets[enqueued + 1], now))
    /\ enqueued' = enqueued + 1
    /\ UNCHANGED <<object, pc, ticket_priority, best_agent_id, best_score,
                   agent_scores, agent_id, scanned, loads, runs, computations,
                   result>>

\* the loop of lines 306-308 is over: control reaches `while ticket_priorities'
EnqueueDone ==
    /\ pc = "enqueue"
    /\ enqueued = Len(tickets)
    /\ pc' = "drain"
    /\ UNCHANGED <<object, clock, locals, loads, runs, computations, result>>

\* `while ticket_priorities' is true: lines 311-316
Pop ==
    /\ pc = "drain"
    /\ ticket_priorities # <<>>
    /\ pc' = "scan"
    /\ ticket_priority' = HeappopItem(ticket_priorities)
    /\ ticket_priorities' = HeappopRest(ticket_priorities)
    /\ best_agent_id' = None
    /\ best_score' = RInt(-1)
    /\ agent_scores' = <<>>
    /\ scanned' = 0
    /\ UNCHANGED <<object, clock, enqueued, agent_id, loads, runs, computations,
                   result>>

\* `while ticket_priorities' is false: assign_tickets returns
Return ==
    /\ pc = "drain"
    /\ ticket_priorities = <<>>
    /\ pc' = "idle"
    /\ runs' = runs + 1
    /\ UNCHANGED <<object, clock, locals, loads, computations, result>>

\* A faulty scan: the candidate is charged with the ticket while it is scored.
ScoreAgent_Charging ==
    /\ pc = "scan"
    /\ scanned < Len(agents)
    /\ LET agent  == agents[scanned + 1]
           ticket == TicketAt(tickets, ticket_priority.ticket_id)
       IN  \E score \in {calculate_agent_score(
                             config, agent_performance_history, agent,
                             ExtractResult(skill_requirements_cache, ticket),
                             ticket_priority)} :
           /\ skill_requirements_cache' = ExtractCache(skill_requirements_cache, ticket)
           /\ computations' = Counted(skill_requirements_cache, ticket)
           /\ agent_id' = agent.agent_id
           /\ agent_scores' = [id \in DOMAIN agent_scores \cup {agent.agent_id} |->
                                  IF id = agent.agent_id THEN score ELSE agent_scores[id]]
           /\ IF RLt(best_score, score)
              THEN best_score' = score /\ best_agent_id' = agent.agent_id
              ELSE UNCHANGED <<best_score, best_agent_id>>
    /\ agents' = [agents EXCEPT ![scanned + 1].current_priority_load =
                                    RAdd(@, ticket_priority.priority_score)]
    /\ scanned' = scanned + 1
    /\ UNCHANGED <<tickets, assignments, config, agent_performance_history,
                   clock, pc, ticket_priorities, enqueued, ticket_priority, loads,
                   runs, result>>

\* one iteration of the loop of lines 318-324
ScoreAgent ==
    /\ pc = "scan"
    /\ scanned < Len(agents)
    /\ LET agent  == agents[scanned + 1]
           ticket == TicketAt(tickets, ticket_priority.ticket_id)
       IN  \E score \in {calculate_agent_score(
                             config, agent_performance_history, agent,
                             ExtractResult(skill_requirements_cache, ticket),
                             ticket_priority)} :
           /\ skill_requirements_cache' = ExtractCache(skill_requirements_cache, ticket)
           /\ computations' = Counted(skill_requirements_cache, ticket)
           /\ agent_id' = agent.agent_id
           /\ agent_scores' = [id \in DOMAIN agent_scores \cup {agent.agent_id} |->
                                  IF id = agent.agent_id THEN score ELSE agent_scores[id]]
           /\ IF RLt(best_score, score)
              THEN best_score' = score /\ best_agent_id' = agent.agent_id
              ELSE UNCHANGED <<best_score, best_agent_id>>
    /\ scanned' = scanned + 1
    /\ UNCHANGED <<agents, tickets, assignments, config, agent_performance_history,
                   clock, pc, ticket_priorities, enqueued, ticket_priority, loads,
                   runs, result>>

\* the rationale string of lines 330-356
Rationale(agent, loop_agent_id, required_skills, priority, score) ==
    LET matched_skills == SelectSeq(SkillList(required_skills),
                                    LAMBDA s : s \in DOMAIN agent.skills)
        shown          == Take(matched_skills, 3)
        skill_details  == [i \in 1..Len(shown) |->
                              shown[i] \o " (" \o ToString(agent.skills[shown[i]]) \o ")"]
        p1 == IF matched_skills # <<>>
              THEN <<"Strong skills in " \o Join(skill_details)>> ELSE <<>>
        p2 == IF agent.experience_level >= 10 THEN <<"senior expert level">>
              ELSE IF agent.experience_level >= 7 THEN <<"experienced professional">>
              ELSE IF agent.experience_level >= 4 THEN <<"competent handler">>
              ELSE <<"developing expertise">>
        p3 == IF agent.current_load <= 2 THEN <<"optimal workload capacity">>
              ELSE IF agent.current_load <= 4 THEN <<"balanced workload">>
              ELSE <<>>
        p4 == IF priority.urgency_level \in {"CRITICAL", "HIGH"}
              THEN <<"capable of handling " \o priority.urgency_level \o " priority">>
              ELSE <<>>
    IN  "Assigned to " \o agent.name \o " (" \o loop_agent_id \o ") - "
        \o Join(p1 \o p2 \o p3 \o p4) \o ". Match score: " \o Fmt2(score)
        \o ", Priority: " \o priority.urgency_level

\* the record of lines 358-373
AssignedRecord(agent, ticket, loop_agent_id, required_skills, priority, score, now) ==
    [ticket_id            |-> ticket.ticket_id,
     title                |-> ticket.title,
     assigned_agent_id    |-> agent.agent_id,
     assigned_agent_name  |-> agent.name,
     priority             |-> priority.urgency_level,
     priority_score       |-> RoundTo2(priority.priority_score),
     business_impact      |-> RoundTo2(priority.business_impact),
     affected_users       |-> priority.affected_users,
     security_risk        |-> RoundTo2(priority.security_risk),
     agent_match_score    |-> RoundTo2(score),
     rationale            |-> Rationale(agent, loop_agent_id, required_skills, priority, score),
     required_skills      |-> Take(SkillList(required_skills), 5),
     agent_skills_matched |-> Take(SelectSeq(SkillList(required_skills),
                                             LAMBDA s : s \in DOMAIN agent.skills), 5),
     timestamp            |-> now]

\* the record of lines 386-395
UnassignedRecord(ticket, priority, now) ==
    [ticket_id           |-> ticket.ticket_id,
     title               |-> ticket.title,
     assigned_agent_id   |-> None,
     assigned_agent_name |-> "UNASSIGNED",
     priority            |-> priority.urgency_level,
     priority_score      |-> RoundTo2(priority.priority_score),
     rationale           |-> "No suitable agent available - requires escalation or additional resources",
     timestamp           |-> now]

\* A faulty commit: the ticket id is not appended to assigned_tickets.
Committed_NotAppended(agent, ticket, priority) ==
    [agent EXCEPT !.current_load = @ + 1,
                  !.current_priority_load = RAdd(@, priority.priority_score)]

\* the agent after lines 377-379
Committed(agent, ticket, priority) ==
    [agent EXCEPT !.current_load = @ + 1,
                  !.assigned_tickets = Append(@, ticket.ticket_id),
                  !.current_priority_load = RAdd(@, priority.priority_score)]

\* `if best_agent_id:' of line 326
Chosen(id) == Truthy(id)

\* the agent loop is over and best_agent_id is true: lines 327-382
Commit ==
    /\ pc = "scan"
    /\ scanned = Len(agents)
    /\ Chosen(best_agent_id)
    /\ LET agent  == AgentAt(agents, best_agent_id)
           ticket == TicketAt(tickets, ticket_priority.ticket_id)
           required_skills == ExtractResult(skill_requirements_cache, ticket)
       IN  /\ skill_requirements_cache' = ExtractCache(skill_requirements_cache, ticket)
           /\ computations' = Counted(skill_requirements_cache, ticket)
           /\ \E now \in Readings(clock) :
                  /\ clock' = now
                  /\ assignments' = Append(assignments,
                         AssignedRecord(agent, ticket, agent_id, required_skills,
                                        ticket_priority, best_score, now))
           /\ agents' = AgentPut(agents, best_agent_id,
                                 Committed(agent, ticket, ticket_priority))
    /\ pc' = "drain"
    /\ UNCHANGED <<tickets, config, agent_performance_history, locals,
                   loads, runs, result>>

\* A faulty escalation: the ticket nobody took is put back into the heap.
Unassigned_Requeued ==
    /\ pc = "scan"
    /\ scanned = Len(agents)
    /\ ~Chosen(best_agent_id)
    /\ \E now \in Readings(clock) :
           /\ clock' = now
           /\ assignments' = Append(assignments,
                  UnassignedRecord(TicketAt(tickets, ticket_priority.ticket_id),
                                   ticket_priority, now))
    /\ ticket_priorities' = heappush(ticket_priorities, ticket_priority)
    /\ pc' = "drain"
    /\ UNCHANGED <<agents, tickets, config, skill_requirements_cache,
                   agent_performance_history, enqueued, ticket_priority,
                   best_agent_id, best_score, agent_scores, agent_id, scanned,
                   loads, runs, computations, result>>

\* the agent loop is over and best_agent_id is false: lines 383-395
Unassigned ==
    /\ pc = "scan"
    /\ scanned = Len(agents)
    /\ ~Chosen(best_agent_id)
    /\ \E now \in Readings(clock) :
           /\ clock' = now
           /\ assignments' = Append(assignments,
                  UnassignedRecord(TicketAt(tickets, ticket_priority.ticket_id),
                                   ticket_priority, now))
    /\ pc' = "drain"
    /\ UNCHANGED <<agents, tickets, config, skill_requirements_cache,
                   agent_performance_history, locals, loads, runs,
                   computations, result>>

(***************************************************************************)
(* extract_required_skills called on a loaded ticket from outside.         *)
(***************************************************************************)
ExtractRequiredSkills(i) ==
    /\ pc = "idle"
    /\ i \in 1..Len(tickets)
    /\ called' = "extract_required_skills"
    /\ returned' = ExtractResult(skill_requirements_cache, tickets[i])
    /\ skill_requirements_cache' = ExtractCache(skill_requirements_cache, tickets[i])
    /\ computations' = Counted(skill_requirements_cache, tickets[i])
    /\ UNCHANGED <<agents, tickets, assignments, config, agent_performance_history,
                   clock, pc, locals, loads, runs>>

(***************************************************************************)
(* generate_analytics                                                      *)
(***************************************************************************)
\* A faulty count of assigned tickets: the filter on assigned_agent_id left out.
AssignedCount_All(log) == Len(log)

\* sum(1 for a in self.assignments if a['assigned_agent_id']) and its negation
AssignedCount(log)   == Cardinality({i \in 1..Len(log) : Truthy(log[i].assigned_agent_id)})
UnassignedCount(log) == Cardinality({i \in 1..Len(log) : ~Truthy(log[i].assigned_agent_id)})

\* analytics['priority_distribution'] after the loop of lines 413-414
PriorityDistribution(log) ==
    [p \in {log[i].priority : i \in 1..Len(log)} |->
        Cardinality({i \in 1..Len(log) : log[i].priority = p})]

\* f"{x:.1f}%"
Fmt1Percent(x) ==
    LET t  == RMul(x, RInt(10))
        f  == RFloor(t)
        r  == RSub(t, RInt(f))
        n  == IF RLt(r, Rat(1, 2)) THEN f
              ELSE IF RLt(Rat(1, 2), r) THEN f + 1
              ELSE IF f % 2 = 0 THEN f ELSE f + 1
    IN  (IF RLt(x, RInt(0)) THEN "-" ELSE "")
        \o ToString(Abs(n) \div 10) \o "." \o ToString(Abs(n) % 10) \o "%"

\* int(s) for a string of decimal digits
Digits == "0123456789"
DigitValue(c) == (CHOOSE d \in 1..10 : SubSeq(Digits, d, d) = c) - 1

RECURSIVE ParseNat(_)
ParseNat(s) ==
    IF Len(s) = 0 THEN 0
    ELSE ParseNat(SubSeq(s, 1, Len(s) - 1)) * 10 + DigitValue(SubSeq(s, Len(s), Len(s)))

\* float(s.rstrip('%')) for s as Fmt1Percent writes it
ParsePercent(s) ==
    LET RECURSIVE Strip(_)
        Strip(u) == IF Len(u) > 0 /\ SubSeq(u, Len(u), Len(u)) = "%"
                    THEN Strip(SubSeq(u, 1, Len(u) - 1)) ELSE u
        body == Strip(s)
        neg  == Len(body) > 0 /\ SubSeq(body, 1, 1) = "-"
        mag  == IF neg THEN SubSeq(body, 2, Len(body)) ELSE body
        dot  == CHOOSE k \in 1..Len(mag) : SubSeq(mag, k, k) = "."
        v    == RAdd(RInt(ParseNat(SubSeq(mag, 1, dot - 1))),
                     Rat(ParseNat(SubSeq(mag, dot + 1, Len(mag))), 10))
    IN  IF neg THEN RNeg(v) ELSE v

\* analytics['agent_workload'] after the loop of lines 416-421: a dictionary
\* keyed by agent name, held as the sequence of its entries in insertion order.
RECURSIVE AgentWorkload(_, _)
AgentWorkload(cfg, ags) ==
    IF ags = <<>> THEN <<>>
    ELSE LET d     == AgentWorkload(cfg, SubSeq(ags, 1, Len(ags) - 1))
             agent == ags[Len(ags)]
             entry == [name |-> agent.name,
                       tickets_assigned |-> agent.current_load,
                       priority_load |-> RoundTo2(agent.current_priority_load),
                       utilization |-> Fmt1Percent(
                           RMul(Rat(agent.current_load, cfg.max_load_per_agent),
                                RInt(100)))]
             same  == {i \in 1..Len(d) : d[i].name = agent.name}
         IN  IF same # {} THEN [i \in 1..Len(d) |-> IF i \in same THEN entry ELSE d[i]]
             ELSE Append(d, entry)

\* The cache after extract_required_skills has been called on each ticket of
\* the list in turn.
RECURSIVE ExtractAllCache(_, _)
ExtractAllCache(cache, list) ==
    IF list = <<>> THEN cache
    ELSE ExtractAllCache(ExtractCache(cache, Head(list)), Tail(list))

\* A faulty loop: the skills of a ticket are counted only when they were
\* computed by the call, not when they came from the cache.
RECURSIVE RequiredOccurrences_MissesOnly(_, _)
RequiredOccurrences_MissesOnly(cache, list) ==
    IF list = <<>> THEN <<>>
    ELSE (IF CacheHit(cache, Head(list)) THEN <<>>
          ELSE SkillList(ExtractResult(cache, Head(list))))
         \o RequiredOccurrences_MissesOnly(ExtractCache(cache, Head(list)), Tail(list))

\* The skills met in the loop of lines 423-426, one entry per ticket and skill,
\* in the order met.
RECURSIVE RequiredOccurrences(_, _)
RequiredOccurrences(cache, list) ==
    IF list = <<>> THEN <<>>
    ELSE SkillList(ExtractResult(cache, Head(list)))
         \o RequiredOccurrences(ExtractCache(cache, Head(list)), Tail(list))

\* the keys of a list in order of first occurrence
RECURSIVE FirstOccurrences(_)
FirstOccurrences(list) ==
    IF list = <<>> THEN <<>>
    ELSE LET front == FirstOccurrences(SubSeq(list, 1, Len(list) - 1))
             x     == list[Len(list)]
         IN  IF \E i \in 1..Len(front) : front[i] = x THEN front ELSE Append(front, x)

\* A faulty count: only the tickets whose requirements are already cached,
\* those that assign_tickets has processed, are counted.
SkillDemand_CachedOnly(cache, list) ==
    LET seen == SelectSeq(list, LAMBDA t : CacheHit(cache, t))
        occ  == RequiredOccurrences(cache, seen)
        keys == FirstOccurrences(occ)
    IN  [k \in 1..Len(keys) |->
            [skill  |-> keys[k],
             demand |-> Cardinality({i \in 1..Len(occ) : occ[i] = keys[k]})]]

\* analytics['skill_demand'] as the list of its items
SkillDemand(cache, list) ==
    LET occ  == RequiredOccurrences(cache, list)
        keys == FirstOccurrences(occ)
    IN  [k \in 1..Len(keys) |->
            [skill  |-> keys[k],
             demand |-> Cardinality({i \in 1..Len(occ) : occ[i] = keys[k]})]]

\* sorted(items, key=lambda x: x[1], reverse=True): by descending demand,
\* items of equal demand keeping their order
RECURSIVE SortByDemand(_)
SortByDemand(items) ==
    IF items = <<>> THEN <<>>
    ELSE LET top  == CHOOSE i \in 1..Len(items) :
                        /\ \A j \in 1..Len(items) : items[j].demand <= items[i].demand
                        /\ \A j \in 1..(i - 1) : items[j].demand < items[i].demand
             rest == [j \in 1..(Len(items) - 1) |->
                         IF j < top THEN items[j] ELSE items[j + 1]]
         IN  <<items[top]>> \o SortByDemand(rest)

\* Faulty skill gaps: every demanded skill is looked at, not the first ten.
SkillGaps_NoCut(ags, demand) ==
    LET top_demanded_skills == SortByDemand(demand)
        qualified(skill) ==
            Cardinality({i \in 1..Len(ags) :
                            /\ skill \in DOMAIN ags[i].skills
                            /\ ags[i].skills[skill] >= 7})
        gaps == SelectSeq(top_demanded_skills,
                          LAMBDA item : qualified(item.skill) < 3)
    IN  [k \in 1..Len(gaps) |->
            [skill |-> gaps[k].skill, demand |-> gaps[k].demand,
             qualified_agents |-> qualified(gaps[k].skill)]]

\* analytics['skill_gaps'] (lines 428-439)
SkillGaps(ags, demand) ==
    LET top_demanded_skills == Take(SortByDemand(demand), 10)
        qualified(skill) ==
            Cardinality({i \in 1..Len(ags) :
                            /\ skill \in DOMAIN ags[i].skills
                            /\ ags[i].skills[skill] >= 7})
        gaps == SelectSeq(top_demanded_skills,
                          LAMBDA item : qualified(item.skill) < 3)
    IN  [k \in 1..Len(gaps) |->
            [skill |-> gaps[k].skill, demand |-> gaps[k].demand,
             qualified_agents |-> qualified(gaps[k].skill)]]

\* analytics['recommendations'] (lines 441-459); the pictograph that opens
\* each sentence in the source is left out.
Recommendations(summary, skill_gaps, agent_workload) ==
    LET r1 == IF summary.unassigned_tickets > 0
              THEN << ToString(summary.unassigned_tickets)
                      \o " tickets remain unassigned - "
                      \o "consider hiring or training additional agents" >>
              ELSE <<>>
        r2 == IF skill_gaps # <<>>
              THEN << "Critical skill gap: " \o skill_gaps[1].skill
                      \o " - high demand (" \o ToString(skill_gaps[1].demand)
                      \o " tickets) but only "
                      \o ToString(skill_gaps[1].qualified_agents)
                      \o " qualified agents" >>
              ELSE <<>>
        over == SelectSeq(agent_workload,
                          LAMBDA e : RLt(RInt(80), ParsePercent(e.utilization)))
        overloaded == [i \in 1..Len(over) |-> over[i].name]
        r3 == IF overloaded # <<>>
              THEN << ToString(Len(overloaded))
                      \o " agents are over 80% capacity: "
                      \o Join(Take(overloaded, 3)) >>
              ELSE <<>>
    IN  r1 \o r2 \o r3

\* the dictionary generate_analytics returns
Analytics(cfg, ags, tks, log, cache) ==
    LET summary == [total_tickets      |-> Len(tks),
                    total_agents       |-> Len(ags),
                    assigned_tickets   |-> AssignedCount(log),
                    unassigned_tickets |-> UnassignedCount(log)]
        agent_workload == AgentWorkload(cfg, ags)
        skill_demand   == SkillDemand(cache, tks)
        skill_gaps     == SkillGaps(ags, skill_demand)
    IN  [summary               |-> summary,
         priority_distribution |-> PriorityDistribution(log),
         agent_workload        |-> agent_workload,
         skill_demand          |-> skill_demand,
         skill_gaps            |-> skill_gaps,
         recommendations       |-> Recommendations(summary, skill_gaps, agent_workload)]

\* computations after extract_required_skills has been called on each ticket
RECURSIVE CountedAll(_, _, _)
CountedAll(cache, list, count) ==
    IF list = <<>> THEN count
    ELSE CountedAll(ExtractCache(cache, Head(list)), Tail(list),
                    IF CacheHit(cache, Head(list)) THEN count
                    ELSE [id \in DOMAIN count \cup {Head(list).ticket_id} |->
                             IF id = Head(list).ticket_id
                             THEN (IF id \in DOMAIN count THEN count[id] ELSE 0) + 1
                             ELSE count[id]])

GenerateAnalytics ==
    /\ pc = "idle"
    /\ called' = "generate_analytics"
    /\ returned' = Analytics(config, agents, tickets, assignments,
                             skill_requirements_cache)
    /\ skill_requirements_cache' = ExtractAllCache(skill_requirements_cache, tickets)
    /\ computations' = CountedAll(skill_requirements_cache, tickets, computations)
    /\ UNCHANGED <<agents, tickets, assignments, config, agent_performance_history,
                   clock, pc, locals, loads, runs>>

(***************************************************************************)
(* save_results                                                            *)
(***************************************************************************)
\* the dictionary dumped to output_path (lines 465-474)
Output(cfg, ags, tks, log, cache, now) ==
    [metadata    |-> [generated_at     |-> now,
                      total_tickets    |-> Len(tks),
                      total_agents     |-> Len(ags),
                      assignments_made |-> Len(log)],
     assignments |-> log,
     analytics   |-> Analytics(cfg, ags, tks, log, cache)]

\* the dictionary dumped to output_result_simplified.json (lines 481-491)
SimplifiedOutput(log) ==
    [assignments |->
        [i \in 1..Len(Take(log, 10)) |->
            [ticket_id         |-> log[i].ticket_id,
             title             |-> log[i].title,
             assigned_agent_id |-> log[i].assigned_agent_id,
             rationale         |-> log[i].rationale]]]

\* open(path, 'w') and json.dump
Written(fs, path, content) ==
    [p \in DOMAIN fs \cup {path} |-> IF p = path THEN content ELSE fs[p]]

SaveResults ==
    /\ pc = "idle"
    /\ called' = "save_results"
    /\ returned' = None
    /\ \E now \in Readings(clock) :
           /\ clock' = now
           /\ files' = Written(Written(files, "output_result.json",
                                      Output(config, agents, tickets, assignments,
                                             skill_requirements_cache, now)),
                               "output_result_simplified.json",
                               SimplifiedOutput(assignments))
    /\ skill_requirements_cache' = ExtractAllCache(skill_requirements_cache, tickets)
    /\ computations' = CountedAll(skill_requirements_cache, tickets, computations)
    /\ UNCHANGED <<agents, tickets, assignments, config, agent_performance_history,
                   pc, locals, loads, runs>>

(***************************************************************************)
(* utils.validate_data and the input files of run_system.main              *)
(***************************************************************************)
\* a dictionary without one of its keys
Without(rec, key) == [k \in DOMAIN rec \ {key} |-> rec[k]]

AgentKeys  == {"agent_id", "skills", "name", "experience_level",
               "availability_status", "current_load"}
TicketKeys == {"ticket_id", "description", "title", "creation_timestamp"}

\* Complete records, and the lists of records an input file may hold: complete
\* ones, and ones that lack a key.
FileAgent   == CHOOSE a \in AgentPool : a.agent_id = "agent_001"
OtherAgent  == CHOOSE a \in AgentPool : a.name = "Bob"
FileTicket  == CHOOSE t \in TicketPool : t.title = "Network down"
OtherTicket == CHOOSE t \in TicketPool : t.title = "Printer"

AgentLists ==
    {<<>>, <<FileAgent>>, <<OtherAgent, FileAgent>>}
    \cup {<<Without(FileAgent, k)>> : k \in AgentKeys}

TicketLists ==
    {<<>>, <<FileTicket>>, <<OtherTicket, FileTicket>>}
    \cup {<<Without(FileTicket, k)>> : k \in TicketKeys}

\* The file at args.input: one that cannot be opened or parsed, or the parsed
\* dictionary, with or without its 'agents' and 'tickets' keys.
InputFiles ==
    {[readable |-> FALSE]}
    \cup {[readable |-> TRUE, data |-> [tickets |-> <<FileTicket>>]],
          [readable |-> TRUE, data |-> [agents |-> <<FileAgent>>]]}
    \cup {[readable |-> TRUE, data |-> [agents |-> a, tickets |-> t]] :
             a \in AgentLists, t \in TicketLists}

\* the errors of the loop over data['agents'], from the i-th agent on
RECURSIVE AgentErrors(_, _)
AgentErrors(list, i) ==
    IF i > Len(list) THEN <<>>
    ELSE (IF "agent_id" \notin DOMAIN list[i]
          THEN <<"Agent " \o ToString(i - 1) \o " missing 'agent_id'">> ELSE <<>>)
         \o (IF "skills" \notin DOMAIN list[i]
             THEN <<"Agent " \o ToString(i - 1) \o " missing 'skills'">> ELSE <<>>)
         \o AgentErrors(list, i + 1)

\* the errors of the loop over data['tickets'], from the i-th ticket on
RECURSIVE TicketErrors(_, _)
TicketErrors(list, i) ==
    IF i > Len(list) THEN <<>>
    ELSE (IF "ticket_id" \notin DOMAIN list[i]
          THEN <<"Ticket " \o ToString(i - 1) \o " missing 'ticket_id'">> ELSE <<>>)
         \o (IF "description" \notin DOMAIN list[i]
             THEN <<"Ticket " \o ToString(i - 1) \o " missing 'description'">> ELSE <<>>)
         \o TicketErrors(list, i + 1)

\* validate_data(data_path): the list of errors
ValidationErrors(file) ==
    IF ~file.readable THEN <<"Error loading data">>
    ELSE LET data == file.data
         IN  (IF "agents" \notin DOMAIN data
              THEN <<"Missing 'agents' key in data">> ELSE <<>>)
             \o (IF "tickets" \notin DOMAIN data
                 THEN <<"Missing 'tickets' key in data">> ELSE <<>>)
             \o (IF "agents" \in DOMAIN data THEN AgentErrors(data.agents, 1) ELSE <<>>)
             \o (IF "tickets" \in DOMAIN data THEN TicketErrors(data.tickets, 1) ELSE <<>>)

\* validate_data(data_path): is_valid
validate_data(file) == Len(ValidationErrors(file)) = 0

(***************************************************************************)
(* ml_ticket_classifier: train_skill_model                                 *)
(***************************************************************************)
\* the skill templates, each as its words
skill_templates ==
    << <<"network", "connectivity", "vpn", "connection", "router", "switch",
         "firewall", "configuration">>,
       <<"database", "sql", "query", "performance", "optimization", "table",
         "index", "backup", "restore">>,
       <<"aws", "cloud", "ec2", "s3", "lambda", "serverless", "infrastructure",
         "deployment">>,
       <<"security", "breach", "attack", "malware", "virus", "phishing",
         "authentication", "encryption">>,
       <<"hardware", "laptop", "desktop", "computer", "fan", "battery", "power",
         "boot", "bios">>,
       <<"windows", "operating", "system", "registry", "driver", "update",
         "patch", "installation">>,
       <<"linux", "ubuntu", "debian", "centos", "bash", "shell", "script",
         "permissions">>,
       <<"microsoft", "office", "outlook", "teams", "sharepoint", "onedrive",
         "email", "calendar">> >>

\* TfidfVectorizer(min_df=2, max_df=0.8): a term is kept when it is in at least
\* min_df documents and in at most max_df of them
min_df == 2
max_df == Rat(8, 10)

\* the number of templates a word is in
DocumentFrequency(word) ==
    Cardinality({d \in 1..Len(skill_templates) :
                    \E k \in 1..Len(skill_templates[d]) : skill_templates[d][k] = word})

\* The words fit_transform keeps.  A sequence of two or three words is in no
\* more documents than each of its words, and dropping stop words only removes
\* terms, so no term is kept when no word is.
Vocabulary ==
    {w \in UNION {{skill_templates[d][k] : k \in 1..Len(skill_templates[d])} :
                     d \in 1..Len(skill_templates)} :
        /\ DocumentFrequency(w) >= min_df
        /\ RLe(RInt(DocumentFrequency(w)), RMul(max_df, RInt(Len(skill_templates))))}

\* train_skill_model(tickets, agents): what it raises, if anything.  Neither
\* argument is read; fit_transform raises ValueError when it keeps no term.
train_skill_model(data_tickets, data_agents) ==
    IF Vocabulary = {} THEN "ValueError" ELSE None

(***************************************************************************)
(* run_system.main                                                         *)
(***************************************************************************)
\* main is entered: the files at args.input and args.config, and the flags
MainInit ==
    /\ NewObject
    /\ \E f \in InputFiles, c \in ConfigFiles, ml \in BOOLEAN, only \in BOOLEAN :
           main = [at |-> "validate", input |-> f, config_file |-> c,
                   ml_enhanced |-> ml, validate_only |-> only, status |-> None]
    /\ files = <<>>

\* main has left by sys.exit or by an exception, or has returned
Stopped == main.at \in {"exit", "raised", "done"}

MainValidate_NoExit ==
    /\ main.at = "validate"
    /\ main' = IF main.validate_only /\ validate_data(main.input)
               THEN [main EXCEPT !.at = "exit", !.status = "exit 0"]
               ELSE [main EXCEPT !.at = "construct"]
    /\ UNCHANGED <<system, files>>

\* lines 58-71
MainValidate ==
    /\ main.at = "validate"
    /\ main' = IF ~validate_data(main.input)
               THEN [main EXCEPT !.at = "exit", !.status = "exit 1"]
               ELSE IF main.validate_only
               THEN [main EXCEPT !.at = "exit", !.status = "exit 0"]
               ELSE [main EXCEPT !.at = "construct"]
    /\ UNCHANGED <<system, files>>

\* line 74: AdvancedTicketAssignmentSystem(args.config)
MainConstruct ==
    /\ main.at = "construct"
    /\ LET loaded == _load_config(main.config_file)
       IN  IF loaded.raises # None
           THEN /\ main' = [main EXCEPT !.at = "raised", !.status = loaded.raises]
                /\ UNCHANGED <<system, files>>
           ELSE /\ config' = loaded.config
                /\ main' = [main EXCEPT !.at = "load"]
                /\ UNCHANGED <<agents, tickets, assignments, skill_requirements_cache,
                               agent_performance_history, clock, pc, locals, loads,
                               runs, computations, result, files>>

\* line 77: system.load_data(args.input)
MainLoad ==
    /\ main.at = "load"
    /\ LoadData(main.input.data)
    /\ main' = [main EXCEPT !.at = "ml"]
    /\ UNCHANGED files

\* line 79, args.ml_enhanced being false
MainSkipClassifier ==
    /\ main.at = "ml"
    /\ ~main.ml_enhanced
    /\ main' = [main EXCEPT !.at = "assign"]
    /\ UNCHANGED <<system, files>>

\* lines 79-90, args.ml_enhanced being true
MainTrainClassifier ==
    /\ main.at = "ml"
    /\ main.ml_enhanced
    /\ LET raises == train_skill_model(main.input.data.tickets, main.input.data.agents)
       IN  main' = IF raises # None
                   THEN [main EXCEPT !.at = "raised", !.status = raises]
                   ELSE [main EXCEPT !.at = "assign"]
    /\ UNCHANGED <<system, files>>

\* line 93: system.assign_tickets() is entered
MainAssign ==
    /\ main.at = "assign"
    /\ AssignStart
    /\ main' = [main EXCEPT !.at = "assigning"]
    /\ UNCHANGED files

\* calculate_ticket_priority(ticket) raises KeyError: lines 178, 179, 214
PriorityRaises(ticket) ==
    \/ "description" \notin DOMAIN ticket
    \/ "title" \notin DOMAIN ticket
    \/ "creation_timestamp" \notin DOMAIN ticket

\* calculate_agent_score(agent, ticket, ticket_priority) raises KeyError or
\* ZeroDivisionError: lines 254, 263, 266, 293
ScoreRaises(cfg, agent, required_skills) ==
    \/ DOMAIN required_skills # {} /\ "skills" \notin DOMAIN agent
    \/ "experience_level" \notin DOMAIN agent
    \/ "current_load" \notin DOMAIN agent
    \/ cfg.max_load_per_agent = 0
    \/ "availability_status" \notin DOMAIN agent

\* the commit raises KeyError: lines 332, 355
CommitRaises(agent) ==
    \/ "skills" \notin DOMAIN agent
    \/ "name" \notin DOMAIN agent

\* the exception leaves assign_tickets and main
Raised(exception) ==
    /\ pc' = "idle"
    /\ main' = [main EXCEPT !.at = "raised", !.status = exception]
    /\ UNCHANGED files

\* line 307 raises
MainPriorityRaises ==
    /\ main.at = "assigning"
    /\ pc = "enqueue"
    /\ enqueued < Len(tickets)
    /\ PriorityRaises(tickets[enqueued + 1])
    /\ Raised("KeyError")
    /\ IF {"description", "title"} \subseteq DOMAIN tickets[enqueued + 1]
       THEN clock' \in Readings(clock)
       ELSE UNCHANGED clock
    /\ UNCHANGED <<object, locals, loads, runs, computations, result>>

\* line 319 raises, after the required skills were extracted at line 249
MainScoreRaises ==
    /\ main.at = "assigning"
    /\ pc = "scan"
    /\ scanned < Len(agents)
    /\ LET ticket == TicketAt(tickets, ticket_priority.ticket_id)
       IN  /\ ScoreRaises(config, agents[scanned + 1],
                          ExtractResult(skill_requirements_cache, ticket))
           /\ skill_requirements_cache' = ExtractCache(skill_requirements_cache, ticket)
           /\ computations' = Counted(skill_requirements_cache, ticket)
    /\ Raised(IF config.max_load_per_agent = 0
                 /\ {"experience_level", "current_load"} \subseteq DOMAIN agents[scanned + 1]
              THEN "ZeroDivisionError" ELSE "KeyError")
    /\ UNCHANGED <<agents, tickets, assignments, config, agent_performance_history,
                   clock, locals, loads, runs, result>>

\* lines 327-356 raise
MainCommitRaises ==
    /\ main.at = "assigning"
    /\ pc = "scan"
    /\ scanned = Len(agents)
    /\ Chosen(best_agent_id)
    /\ CommitRaises(AgentAt(agents, best_agent_id))
    /\ Raised("KeyError")
    /\ UNCHANGED <<object, clock, locals, loads, runs, computations, result>>

\* the steps of assign_tickets that do not raise
MainEnqueue ==
    /\ main.at = "assigning"
    /\ pc = "enqueue"
    /\ enqueued < Len(tickets)
    /\ ~PriorityRaises(tickets[enqueued + 1])
    /\ Enqueue
    /\ UNCHANGED <<main, files>>

MainScoreAgent ==
    /\ main.at = "assigning"
    /\ pc = "scan"
    /\ scanned < Len(agents)
    /\ ~ScoreRaises(config, agents[scanned + 1],
                    ExtractResult(skill_requirements_cache,
                                  TicketAt(tickets, ticket_priority.ticket_id)))
    /\ ScoreAgent
    /\ UNCHANGED <<main, files>>

MainCommit ==
    /\ main.at = "assigning"
    /\ pc = "scan"
    /\ scanned = Len(agents)
    /\ Chosen(best_agent_id)
    /\ ~CommitRaises(AgentAt(agents, best_agent_id))
    /\ Commit
    /\ UNCHANGED <<main, files>>

\* line 93: system.assign_tickets() returns
MainAssigned ==
    /\ main.at = "assigning"
    /\ Return
    /\ main' = [main EXCEPT !.at = "save"]
    /\ UNCHANGED files

\* generate_analytics() raises KeyError: lines 417-418
AnalyticsRaises(ags) ==
    \E i \in 1..Len(ags) : ~({"name", "current_load"} \subseteq DOMAIN ags[i])

\* line 96: system.save_results(args.output) raises in generate_analytics,
\* after 'generated_at' was read off the clock and before a file is opened
MainSaveRaises ==
    /\ main.at = "save"
    /\ AnalyticsRaises(agents)
    /\ called' = "save_results"
    /\ returned' = None
    /\ clock' \in Readings(clock)
    /\ main' = [main EXCEPT !.at = "raised", !.status = "KeyError"]
    /\ UNCHANGED <<object, pc, locals, loads, runs, computations, files>>

\* line 96: system.save_results(args.output), args.output being left at
\* its default
MainSave ==
    /\ main.at = "save"
    /\ ~AnalyticsRaises(agents)
    /\ SaveResults
    /\ main' = [main EXCEPT !.at = "analytics"]

\* line 98: analytics = system.generate_analytics()
MainAnalytics ==
    /\ main.at = "analytics"
    /\ GenerateAnalytics
    /\ main' = [main EXCEPT !.at = "summary"]
    /\ UNCHANGED files

\* lines 107-108: the success rate divides by total_tickets
MainSummaryRaises ==
    /\ main.at = "summary"
    /\ returned.summary.total_tickets = 0
    /\ main' = [main EXCEPT !.at = "raised", !.status = "ZeroDivisionError"]
    /\ UNCHANGED <<system, files>>

\* lines 100-143, args.dashboard being false: the summary is printed and
\* main returns
MainSummary ==
    /\ main.at = "summary"
    /\ returned.summary.total_tickets # 0
    /\ main' = [main EXCEPT !.at = "done", !.status = "complete"]
    /\ UNCHANGED <<system, files>>

MainNext ==
    \/ MainValidate
    \/ MainConstruct
    \/ MainLoad
    \/ MainSkipClassifier
    \/ MainTrainClassifier
    \/ MainAssign
    \/ MainEnqueue
    \/ MainPriorityRaises
    \/ main.at = "assigning" /\ EnqueueDone /\ UNCHANGED <<main, files>>
    \/ main.at = "assigning" /\ Pop /\ UNCHANGED <<main, files>>
    \/ MainScoreAgent
    \/ MainScoreRaises
    \/ MainCommit
    \/ MainCommitRaises
    \/ main.at = "assigning" /\ Unassigned /\ UNCHANGED <<main, files>>
    \/ MainAssigned
    \/ MainSave
    \/ MainSaveRaises
    \/ MainAnalytics
    \/ MainSummary
    \/ MainSummaryRaises

MainSpec == MainInit /\ [][MainNext]_vars

(***************************************************************************)
(* calculate_ticket_priority on its own: it is called on two tickets, as   *)
(* the loop of lines 306-308 calls it, each result is pushed on the heap,  *)
(* and the heap is then popped until it is empty (lines 310-311).          *)
(***************************************************************************)
PriorityInit ==
    /\ NewObject
    /\ \E first \in PriorityPool, second \in PriorityPool :
           main = [at |-> "priority", tickets |-> <<first, second>>,
                   calls |-> <<>>, drained |-> <<>>]
    /\ files = <<>>

\* lines 307-308 for the next ticket; the call is kept with the reading of
\* datetime.now() it made
PriorityCall ==
    /\ main.at = "priority"
    /\ Len(main.calls) < Len(main.tickets)
    /\ \E now \in Readings(clock) :
           \E item \in {calculate_ticket_priority(config, main.tickets[Len(main.calls) + 1], now)} :
               /\ clock' = now
               /\ ticket_priorities' = heappush(ticket_priorities, item)
               /\ main' = [main EXCEPT !.calls = Append(@, [now |-> now, result |-> item])]
    /\ UNCHANGED <<object, pc, enqueued, ticket_priority, best_agent_id, best_score,
                   agent_scores, agent_id, scanned, loads, runs, computations, result,
                   files>>

\* line 311
PriorityPop ==
    /\ main.at = "priority"
    /\ Len(main.calls) = Len(main.tickets)
    /\ ticket_priorities # <<>>
    /\ ticket_priority' = HeappopItem(ticket_priorities)
    /\ ticket_priorities' = HeappopRest(ticket_priorities)
    /\ main' = [main EXCEPT !.drained = Append(@, HeappopItem(ticket_priorities))]
    /\ UNCHANGED <<object, clock, pc, enqueued, best_agent_id, best_score,
                   agent_scores, agent_id, scanned, loads, runs, computations, result,
                   files>>

PriorityNext == PriorityCall \/ PriorityPop

PrioritySpec == PriorityInit /\ [][PriorityNext]_vars

(***************************************************************************)
(* generate_analytics on its own: an object is loaded once and             *)
(* generate_analytics is called on it.                                     *)
(***************************************************************************)
AnalyticsInit == NewObject /\ main = NotRunning /\ files = <<>>

AnalyticsLoad ==
    /\ loads = 0
    /\ \E data \in DemandDatasets : LoadData(data)
    /\ UNCHANGED <<main, files>>

AnalyticsCall == GenerateAnalytics /\ UNCHANGED <<main, files>>

AnalyticsNext == AnalyticsLoad \/ AnalyticsCall

AnalyticsSpec == AnalyticsInit /\ [][AnalyticsNext]_vars

(***************************************************************************)
(* One object used freely: load_data and assign_tickets are called again   *)
(* on it, with extract_required_skills and generate_analytics at any idle  *)
(* moment.                                                                 *)
(***************************************************************************)
MaxLoads == 2
MaxRuns  == 2

\* the dataset files load_data is called on
ReloadAgents ==
    LET alice == CHOOSE a \in AgentPool : a.agent_id = "agent_001"
        bob   == CHOOSE a \in AgentPool : a.name = "Bob"
    IN  {<<>>, <<alice, bob>>}

ReloadTickets ==
    LET network == CHOOSE t \in TicketPool : t.title = "Network down"
        vpn     == CHOOSE t \in TicketPool : t.title = "VPN Error"
        printer == CHOOSE t \in TicketPool : t.title = "Printer"
    IN  {<<network>>, <<vpn>>, <<printer, network>>}

ReloadDatasets == [agents : ReloadAgents, tickets : ReloadTickets]

MultiLoad ==
    /\ loads < MaxLoads
    /\ \E data \in ReloadDatasets : LoadData(data)
    /\ UNCHANGED <<main, files>>

MultiAssign ==
    /\ runs < MaxRuns
    /\ AssignStart
    /\ UNCHANGED <<main, files>>

MultiNext ==
    \/ MultiLoad
    \/ MultiAssign
    \/ Enqueue /\ UNCHANGED <<main, files>>
    \/ EnqueueDone /\ UNCHANGED <<main, files>>
    \/ Pop /\ UNCHANGED <<main, files>>
    \/ Return /\ UNCHANGED <<main, files>>
    \/ ScoreAgent /\ UNCHANGED <<main, files>>
    \/ Commit /\ UNCHANGED <<main, files>>
    \/ Unassigned /\ UNCHANGED <<main, files>>
    \/ (\E i \in 1..Len(tickets) : ExtractRequiredSkills(i)) /\ UNCHANGED <<main, files>>
    \/ GenerateAnalytics /\ UNCHANGED <<main, files>>

MultiSpec == Init /\ [][MultiNext]_vars

(***************************************************************************)
(* One object, loaded once and run once: construct, load_data,             *)
(* assign_tickets, with the read-only calls at any idle moment.            *)
(***************************************************************************)
Next ==
    \/ loads = 0 /\ (\E data \in Datasets : LoadData(data)) /\ UNCHANGED <<main, files>>
    \/ loads = 1 /\ runs = 0 /\ AssignStart /\ UNCHANGED <<main, files>>
    \/ Enqueue /\ UNCHANGED <<main, files>>
    \/ EnqueueDone /\ UNCHANGED <<main, files>>
    \/ Pop /\ UNCHANGED <<main, files>>
    \/ Return /\ UNCHANGED <<main, files>>
    \/ ScoreAgent /\ UNCHANGED <<main, files>>
    \/ Commit /\ UNCHANGED <<main, files>>
    \/ Unassigned /\ UNCHANGED <<main, files>>
    \/ (\E i \in 1..Len(tickets) : ExtractRequiredSkills(i)) /\ UNCHANGED <<main, files>>
    \/ GenerateAnalytics /\ UNCHANGED <<main, files>>

Spec == Init /\ [][Next]_vars

(***************************************************************************)
(* Properties.                                                             *)
(***************************************************************************)
(***************************************************************************)
(* One object, loaded once with tickets that share skills, run once, and   *)
(* asked for its analytics at any time between the calls.                  *)
(***************************************************************************)
\* The parsed content of a dataset file whose tickets ask for the same skills.
SharedDemandDatasets ==
    [agents  : {<<>>} \cup {s \in [1..2 -> SkilledAgents] :
                               s[1].name = "Erin" /\ s[2].name = "Frank"},
     tickets : DistinctSeqsUpTo(DemandTickets, MaxDemand)]

DemandLoad ==
    /\ loads = 0
    /\ \E data \in SharedDemandDatasets : LoadData(data)
    /\ UNCHANGED <<main, files>>

DemandAssign == loads = 1 /\ runs = 0 /\ AssignStart /\ UNCHANGED <<main, files>>

DemandNext ==
    \/ DemandLoad
    \/ DemandAssign
    \/ Enqueue /\ UNCHANGED <<main, files>>
    \/ EnqueueDone /\ UNCHANGED <<main, files>>
    \/ Pop /\ UNCHANGED <<main, files>>
    \/ Return /\ UNCHANGED <<main, files>>
    \/ ScoreAgent /\ UNCHANGED <<main, files>>
    \/ Commit /\ UNCHANGED <<main, files>>
    \/ Unassigned /\ UNCHANGED <<main, files>>
    \/ GenerateAnalytics /\ UNCHANGED <<main, files>>

DemandSpec == Init /\ [][DemandNext]_vars

\* The control flow of assign_tickets: how a step of the method moves pc and
\* the two loop counters, under the guard of that step.
AssignControl ==
    \/ /\ pc = "enqueue" /\ enqueued < Len(tickets)
       /\ pc' = pc /\ enqueued' = enqueued + 1 /\ scanned' = scanned
    \/ /\ pc = "enqueue" /\ enqueued = Len(tickets)
       /\ pc' = "drain" /\ enqueued' = enqueued /\ scanned' = scanned
    \/ /\ pc = "drain" /\ ticket_priorities # <<>>
       /\ pc' = "scan" /\ enqueued' = enqueued /\ scanned' = 0
    \/ /\ pc = "drain" /\ ticket_priorities = <<>>
       /\ pc' = "idle" /\ enqueued' = enqueued /\ scanned' = scanned
    \/ /\ pc = "scan" /\ scanned < Len(agents)
       /\ pc' = pc /\ enqueued' = enqueued /\ scanned' = scanned + 1
    \/ /\ pc = "scan" /\ scanned = Len(agents)
       /\ pc' = "drain" /\ enqueued' = enqueued /\ scanned' = scanned

\* One object, loaded once, on which assign_tickets is called once.
RunNext ==
    \/ loads = 0 /\ (\E data \in Datasets : LoadData(data)) /\ UNCHANGED <<main, files>>
    \/ loads = 1 /\ runs = 0 /\ AssignStart /\ UNCHANGED <<main, files>>
    \/ Enqueue /\ UNCHANGED <<main, files>>
    \/ EnqueueDone /\ UNCHANGED <<main, files>>
    \/ Pop /\ UNCHANGED <<main, files>>
    \/ Return /\ UNCHANGED <<main, files>>
    \/ ScoreAgent /\ UNCHANGED <<main, files>>
    \/ Commit /\ UNCHANGED <<main, files>>
    \/ Unassigned /\ UNCHANGED <<main, files>>

\* The interpreter does not stop in the middle of assign_tickets: while the
\* method has a next step, one is taken.
FairSpec == Init /\ [][RunNext]_vars /\ WF_<<pc, enqueued, scanned>>(AssignControl)

\* the object has been loaded once and assign_tickets has run once, to its end
RunComplete == loads = 1 /\ runs = 1 /\ pc = "idle"

\* positions of the log that hold a record for ticket id
RecordsOf(id) == {k \in 1..Len(assignments) : assignments[k].ticket_id = id}

\* C1: after load_data and one complete run of assign_tickets the log holds
\* exactly one record for every loaded ticket id, assigned or unassigned, and
\* no record for anything else.
C1_OneRecordPerTicket ==
    RunComplete =>
        /\ \A i \in 1..Len(tickets) : Cardinality(RecordsOf(tickets[i].ticket_id)) = 1
        /\ \A k \in 1..Len(assignments) :
               \E i \in 1..Len(tickets) : tickets[i].ticket_id = assignments[k].ticket_id
        /\ Len(assignments) = Len(tickets)

\* A complete run over two tickets that left one assigned and one unassigned.
C1_Witness ==
    /\ RunComplete
    /\ Len(tickets) = 2
    /\ \E k \in 1..Len(assignments) : assignments[k].assigned_agent_id = None
    /\ \E k \in 1..Len(assignments) : assignments[k].assigned_agent_id # None

\* C2: from load_data on, every agent's current_load is the number of ticket
\* ids in its assigned_tickets list.
C2_LoadIsAssignedCount ==
    loads >= 1 =>
        \A i \in 1..Len(agents) :
            agents[i].current_load = Len(agents[i].assigned_tickets)

\* the priority items still waiting, and the one in hand while agents are scored
Waiting == {ticket_priorities[k] : k \in 1..Len(ticket_priorities)}

\* C3: tickets are drained in descending priority order.  While priorities are
\* being computed nothing is assigned; draining starts with every ticket
\* enqueued; the ticket in hand has no waiting ticket of strictly higher
\* priority_score; and along the log priority_score never increases.
C3_DescendingPriority ==
    /\ pc = "enqueue" => assignments = <<>>
    /\ pc \in {"drain", "scan"} =>
           /\ enqueued = Len(tickets)
           /\ Len(assignments) + Len(ticket_priorities)
                  + (IF pc = "scan" THEN 1 ELSE 0) = Len(tickets)
    /\ pc = "scan" =>
           \A w \in Waiting : RLe(w.priority_score, ticket_priority.priority_score)
    /\ \A i, j \in 1..Len(assignments) :
           i < j => RLe(assignments[j].priority_score, assignments[i].priority_score)

\* Two tickets loaded in ascending priority and logged in descending priority.
C3_Witness ==
    /\ RunComplete
    /\ Len(tickets) = 2
    /\ Len(assignments) = 2
    /\ assignments[1].ticket_id = tickets[2].ticket_id
    /\ RLt(assignments[2].priority_score, assignments[1].priority_score)

\* C4: when there is at least one agent every record of the log names an
\* agent; an unassigned record is written only when there are no agents.
C4_AgentsImplyAssigned ==
    agents # <<>> =>
        \A k \in 1..Len(assignments) : assignments[k].assigned_agent_id # None

\* C5: with no agents no lookup of a chosen agent is attempted, every record is
\* the unassigned one with its escalation rationale, a complete run records
\* every ticket, and generate_analytics then counts all tickets unassigned and
\* none assigned.
C5_NoAgentsAllUnassigned ==
    (loads = 1 /\ agents = <<>>) =>
        /\ pc = "scan" => ~Chosen(best_agent_id)
        /\ \A k \in 1..Len(assignments) :
               /\ assignments[k].assigned_agent_id = None
               /\ assignments[k].assigned_agent_name = "UNASSIGNED"
               /\ assignments[k].rationale # ""
        /\ RunComplete => Len(assignments) = Len(tickets)
        /\ (RunComplete /\ called = "generate_analytics") =>
               /\ returned.summary.unassigned_tickets = Len(tickets)
               /\ returned.summary.assigned_tickets = 0

\* generate_analytics called after a complete run over two tickets and no agent.
C5_Witness ==
    /\ RunComplete
    /\ agents = <<>>
    /\ Len(tickets) = 2
    /\ called = "generate_analytics"
    /\ returned.summary.unassigned_tickets = 2

\* every agent has been scored for the ticket in hand
ScanDone == pc = "scan" /\ scanned = Len(agents)

\* the score of the i-th agent, as it stands now, for the ticket in hand
FreshScore(i) ==
    calculate_agent_score(
        config, agent_performance_history, agents[i],
        ExtractResult(skill_requirements_cache,
                      TicketAt(tickets, ticket_priority.ticket_id)),
        ticket_priority)

\* the earliest agent, in dictionary order, of greatest score
FirstBest ==
    CHOOSE i \in 1..Len(agents) :
        /\ \A j \in 1..Len(agents) : RLe(FreshScore(j), FreshScore(i))
        /\ \A j \in 1..(i - 1) : RLt(FreshScore(j), FreshScore(i))

\* C6: every agent is scored against the agent state left by the earlier
\* commits, and the ticket goes to the earliest agent of greatest score.
C6_GreatestScoreFirstWins ==
    /\ pc = "scan" =>
           \A i \in 1..scanned : agent_scores[agents[i].agent_id] = FreshScore(i)
    /\ (ScanDone /\ agents # <<>>) =>
           /\ best_agent_id = agents[FirstBest].agent_id
           /\ Chosen(best_agent_id)

\* the agent is not "Available" or is at or over max_load_per_agent
Penalised(agent) ==
    \/ agent.availability_status # "Available"
    \/ agent.current_load >= config.max_load_per_agent

\* C7: a penalised agent whose score is the greatest is the one selected, and
\* a run whose agents are all at or over their load limit still assigns every
\* ticket, taking some agent above the limit.
C7_SoftConstraints ==
    /\ (ScanDone /\ agents # <<>> /\ Penalised(agents[FirstBest])) =>
           /\ best_agent_id = agents[FirstBest].agent_id
           /\ Chosen(best_agent_id)
    /\ (RunComplete /\ agents # <<>> /\ tickets # <<>>
          /\ \A i \in 1..Len(agents) :
                 agents[i].current_load >= config.max_load_per_agent) =>
           /\ \A k \in 1..Len(assignments) : assignments[k].assigned_agent_id # None
           /\ \E i \in 1..Len(agents) :
                  agents[i].current_load > config.max_load_per_agent

\* the factor the penalties amount to
PenaltyFactor(agent) ==
    LET unavailable == agent.availability_status # "Available"
        loaded      == agent.current_load >= config.max_load_per_agent
    IN  IF unavailable /\ loaded THEN Rat(1, 1000)
        ELSE IF unavailable THEN Rat(1, 10)
        ELSE IF loaded THEN Rat(1, 100)
        ELSE RInt(1)

\* the weighted sum of the i-th agent for the ticket in hand
FreshWeightedSum(i) ==
    WeightedSum(config, agent_performance_history, agents[i],
                ExtractResult(skill_requirements_cache,
                              TicketAt(tickets, ticket_priority.ticket_id)),
                ticket_priority)

\* C8: the score of an agent is its weighted sum times 0.1 if it is not
\* "Available", times 0.01 if its load is at or over the limit, times 0.001
\* if both, and the weighted sum itself if neither.
C8_PenaltiesStack ==
    pc = "scan" =>
        \A i \in 1..scanned :
            agent_scores[agents[i].agent_id]
                = RMul(FreshWeightedSum(i), PenaltyFactor(agents[i]))

\* One scan that scored an agent under both penalties and an agent under none.
C8_Witness ==
    /\ pc = "scan"
    /\ \E i \in 1..scanned :
           /\ agents[i].availability_status # "Available"
           /\ agents[i].current_load >= config.max_load_per_agent
           /\ FreshWeightedSum(i) # RInt(0)
           /\ agent_scores[agents[i].agent_id] = RMul(FreshWeightedSum(i), Rat(1, 1000))
    /\ \E i \in 1..scanned :
           /\ ~Penalised(agents[i])
           /\ agent_scores[agents[i].agent_id] = FreshWeightedSum(i)

\* C9 as stated: under the default configuration no score is negative.
C9_ScoreNonNegative ==
    \A id \in DOMAIN agent_scores : RLe(RInt(0), agent_scores[id])

\* C9 amended: under the default configuration the score of an agent whose
\* current_load is at most 17 is not negative.
C9_NonNegativeUpToLoad17 ==
    (pc = "scan" /\ config = default_config) =>
        \A i \in 1..scanned :
            agents[i].current_load <= 17 =>
                RLe(RInt(0), agent_scores[agents[i].agent_id])

\* An agent over the load limit, at load 17, scored with nothing in its favour
\* but the baseline terms.
C9_Witness ==
    /\ pc = "scan"
    /\ \E i \in 1..scanned :
           /\ agents[i].current_load = 17
           /\ agents[i].current_load > config.max_load_per_agent
           /\ RLt(RInt(0), agent_scores[agents[i].agent_id])
           /\ RLt(agent_scores[agents[i].agent_id], Rat(1, 100))

\* C10: the lexicon is evaluated at most once for a ticket id, the evaluation
\* stores its result in the cache, and a call for a cached ticket id returns
\* the cached mapping and changes nothing else.
C10_ExtractOncePerTicket ==
    /\ [](\A id \in DOMAIN computations : computations[id] <= 1)
    /\ [](DOMAIN skill_requirements_cache = DOMAIN computations)
    /\ [][\A i \in 1..Len(tickets) :
            ExtractRequiredSkills(i) =>
                /\ tickets[i].ticket_id \in DOMAIN skill_requirements_cache'
                /\ returned' = skill_requirements_cache'[tickets[i].ticket_id]
                /\ CacheHit(skill_requirements_cache, tickets[i]) =>
                       /\ returned' = skill_requirements_cache[tickets[i].ticket_id]
                       /\ UNCHANGED <<object, clock, pc, locals, loads, runs,
                                      computations>>]_vars

\* extract_required_skills called for a ticket the run has already cached.
C10_Witness ==
    /\ RunComplete
    /\ agents # <<>>
    /\ called = "extract_required_skills"
    /\ \E i \in 1..Len(tickets) :
           /\ computations[tickets[i].ticket_id] = 1
           /\ returned = skill_requirements_cache[tickets[i].ticket_id]
           /\ DOMAIN returned # {}

\* C11: while main runs on an input that validate_data rejects, no system is
\* constructed and neither load_data nor assign_tickets is entered: main is
\* validating or has left by sys.exit(1), and the object's state is untouched.
C11_ValidatorGatesCore ==
    ~validate_data(main.input) =>
        /\ main.at \in {"validate", "exit"}
        /\ main.at = "exit" => main.status = "exit 1"
        /\ loads = 0 /\ runs = 0
        /\ pc = "idle" /\ called = None
        /\ agents = <<>> /\ tickets = <<>> /\ assignments = <<>>
        /\ config = default_config

\* main has left on a readable file whose agent lacks 'skills', with a
\* configuration file that would have changed the configuration.
C11_Witness ==
    /\ main.at = "exit"
    /\ main.status = "exit 1"
    /\ main.input.readable
    /\ ValidationErrors(main.input) = <<"Agent 0 missing 'skills'">>
    /\ main.config_file.kind = "json"
    /\ ~main.validate_only

\* C12: on a dataset that validate_data accepts, load_data followed by
\* assign_tickets never leaves main by a KeyError of priority computation,
\* agent scoring or the commit.
C12_AcceptedRunsToCompletion ==
    validate_data(main.input) => ~(main.at = "raised" /\ main.status = "KeyError")

\* C13: with a configuration file that is missing, unreadable or malformed the
\* constructor does not raise, and the object holds the default configuration.
C13_BadConfigNotFatal ==
    main.config_file.kind \in {"missing", "unreadable", "malformed"} =>
        /\ ~(main.at = "raised" /\ main.status \in {"PermissionError", "JSONDecodeError"})
        /\ config = default_config

\* the input file holds only complete records
CompleteInput(file) ==
    /\ validate_data(file)
    /\ \A i \in 1..Len(file.data.agents) : DOMAIN file.data.agents[i] = DOMAIN FileAgent
    /\ \A i \in 1..Len(file.data.tickets) : DOMAIN file.data.tickets[i] = DOMAIN FileTicket

\* C15: a run of main with --ml-enhanced ends with the log of the run without
\* it.  On complete records and a readable configuration the run without the
\* flag returns from assign_tickets with one record per ticket, so the run
\* with the flag, once it has ended, holds one record per ticket as well.
C15_ClassifierIndependent ==
    /\ main.ml_enhanced
    /\ main.at \in {"raised", "save"}
    /\ CompleteInput(main.input)
    /\ main.config_file.kind \in {"missing", "json"}
    => Len(assignments) = Len(main.input.data.tickets)

\* C14: a call of generate_analytics leaves the agents, the tickets and the
\* assignment log as they were, and when the call before it was
\* generate_analytics too it returns what that call returned.
C14_AnalyticsPure ==
    [][GenerateAnalytics =>
          /\ agents' = agents /\ tickets' = tickets /\ assignments' = assignments
          /\ called = "generate_analytics" => returned' = returned]_vars

\* generate_analytics has returned on an object whose run assigned a ticket,
\* with a skill in demand: its cache holds every ticket, and the next call of
\* generate_analytics is the second of two consecutive calls.
C14_Witness ==
    /\ called = "generate_analytics"
    /\ runs = 1 /\ pc = "idle"
    /\ \E i \in 1..Len(assignments) : Truthy(assignments[i].assigned_agent_id)
    /\ returned.skill_demand # <<>>
    /\ \A i \in 1..Len(tickets) : CacheHit(skill_requirements_cache, tickets[i])

\* C16: the urgency level of every computed priority is CRITICAL exactly when
\* the score is at least 20, HIGH exactly when it is at least 15 and below
\* 20, MEDIUM exactly when it is at least 10 and below 15, and LOW exactly
\* when it is below 10.  A score is a fraction <<n, d>> with d > 0.
C16_UrgencyThresholds ==
    \A i \in 1..Len(main.calls) :
        LET n     == main.calls[i].result.priority_score[1]
            d     == main.calls[i].result.priority_score[2]
            level == main.calls[i].result.urgency_level
        IN  /\ d > 0
            /\ level \in {"CRITICAL", "HIGH", "MEDIUM", "LOW"}
            /\ level = "CRITICAL" <=> n >= 20 * d
            /\ level = "HIGH"     <=> (n >= 15 * d /\ n < 20 * d)
            /\ level = "MEDIUM"   <=> (n >= 10 * d /\ n < 15 * d)
            /\ level = "LOW"      <=> n < 10 * d

\* Two calls were made: one scored exactly 20 and is CRITICAL, the other
\* scored below 20 by an eighth and is HIGH.
C16_Witness ==
    /\ Len(main.calls) = 2
    /\ main.calls[1].result.priority_score = RInt(20)
    /\ main.calls[1].result.urgency_level = "CRITICAL"
    /\ main.calls[2].result.priority_score = Rat(159, 8)
    /\ main.calls[2].result.urgency_level = "HIGH"

\* the seconds of a ticket's age that count towards time_urgency
CountedAge(call, ticket) ==
    IF call.now - ticket.creation_timestamp < 86400
    THEN call.now - ticket.creation_timestamp ELSE 86400

\* the two calls differ at most in the number of critical keywords matched
SameButCritical(i, j) ==
    LET a == TextFactorsOf[config, main.tickets[i]]
        b == TextFactorsOf[config, main.tickets[j]]
    IN  /\ a.high_priority_count = b.high_priority_count
        /\ a.business_impact = b.business_impact
        /\ a.affected_users = b.affected_users
        /\ a.security_risk = b.security_risk
        /\ CountedAge(main.calls[i], main.tickets[i])
               = CountedAge(main.calls[j], main.tickets[j])

\* critical_count of the i-th call (lines 184-185)
CriticalCount(i) == TextFactorsOf[config, main.tickets[i]].critical_count

\* C17: of two tickets that differ only in the number of critical keywords
\* matched, the one with more matches has no lower priority_score, and when
\* its score is strictly greater it is not popped after the other.
C17_MonotoneInCritical ==
    \A i, j \in 1..Len(main.calls) :
        (SameButCritical(i, j) /\ CriticalCount(i) >= CriticalCount(j)) =>
            LET a == main.calls[i].result
                b == main.calls[j].result
            IN  /\ a.priority_score[1] * b.priority_score[2]
                       >= b.priority_score[1] * a.priority_score[2]
                /\ (a.priority_score # b.priority_score /\ Len(main.drained) >= 1)
                       => main.drained[1] = a

\* Both tickets were popped; the second one called matches more critical
\* keywords than the first, is otherwise the same, and was popped first.
C17_Witness ==
    /\ Len(main.drained) = 2
    /\ SameButCritical(2, 1)
    /\ CriticalCount(2) > CriticalCount(1)
    /\ main.drained[1] = main.calls[2].result
    /\ main.drained[2] = main.calls[1].result

\* the required skills of the ticket in hand
RequiredInHand ==
    ExtractResult(skill_requirements_cache, TicketAt(tickets, ticket_priority.ticket_id))

\* agent level times importance, summed over the skills of a set
RECURSIVE LevelTimesImportance(_, _, _)
LevelTimesImportance(agent, required_skills, skills) ==
    IF skills = {} THEN RInt(0)
    ELSE LET s == CHOOSE x \in skills : TRUE
         IN  RAdd(RMul(RInt(agent.skills[s]), required_skills[s]),
                  LevelTimesImportance(agent, required_skills, skills \ {s}))

\* skill_match_score as C18 states it
StatedSkillMatch(agent, required_skills) ==
    IF DOMAIN required_skills = {} THEN RInt(5)
    ELSE RDiv(LevelTimesImportance(agent, required_skills,
                                   DOMAIN required_skills \cap DOMAIN agent.skills),
              RInt(Cardinality(DOMAIN required_skills)))

\* the terms of final_score other than the skill match (lines 285-291)
OtherTerms(agent) ==
    RSum(<< RMul(ExperienceScore(agent), config.experience_weight),
            RMul(WorkloadScore(config, agent), config.workload_weight),
            RMul(RInt(PriorityCapability(agent, ticket_priority)), config.priority_weight),
            RMul(PerformanceScore(agent_performance_history, agent), Rat(1, 10)) >>)

\* C18: every score computed for the ticket in hand is made of a
\* skill_match_score of 5 when the ticket requires no skill, and otherwise of
\* the sum of level times importance over the required skills the agent
\* holds, divided by the number of required skills.
C18_NeutralSkillMatch ==
    pc = "scan" =>
        \A i \in 1..scanned :
            agent_scores[agents[i].agent_id]
                = RMul(RAdd(RMul(StatedSkillMatch(agents[i], RequiredInHand),
                                 config.skill_match_weight),
                            OtherTerms(agents[i])),
                       PenaltyFactor(agents[i]))

\* An agent holding skills has been scored for a ticket that requires none:
\* its score is the one made of the neutral 5, and it is not the score a
\* skill match of 0 would give.
C18_Witness ==
    /\ pc = "scan"
    /\ DOMAIN RequiredInHand = {}
    /\ \E i \in 1..scanned :
           /\ DOMAIN agents[i].skills # {}
           /\ ~Penalised(agents[i])
           /\ agent_scores[agents[i].agent_id]
                  = RAdd(RMul(RInt(5), config.skill_match_weight), OtherTerms(agents[i]))
           /\ agent_scores[agents[i].agent_id] # OtherTerms(agents[i])

\* the number of records of the log that assign a ticket to the agent
AssignedTo(id) ==
    Cardinality({k \in 1..Len(assignments) : assignments[k].assigned_agent_id = id})

\* the current_load the dataset gave the agent
DatasetLoad(agent) ==
    (CHOOSE a \in AgentPool : a.agent_id = agent.agent_id /\ a.name = agent.name).current_load

\* C20: a step that appends an assigned record to the log changes one agent,
\* the one the record names: its current_load grows by 1, the record's ticket
\* id is appended to its assigned_tickets, the priority_score of the ticket in
\* hand is added to its current_priority_load, and nothing else of it
\* changes; every other agent is as before.  Hence an agent the dataset gave
\* load 0 has, at any time, current_load and the length of assigned_tickets
\* equal to the number of records that name it, and a zero
\* current_priority_load as long as no record names it.
C20_CommitChangesChosen ==
    /\ [][(Len(assignments') = Len(assignments) + 1
             /\ Truthy(assignments'[Len(assignments')].assigned_agent_id)) =>
            LET record == assignments'[Len(assignments')]
            IN  /\ Len(agents') = Len(agents)
                /\ \E c \in 1..Len(agents) :
                       /\ agents[c].agent_id = record.assigned_agent_id
                       /\ agents'[c].current_load = agents[c].current_load + 1
                       /\ agents'[c].assigned_tickets
                              = agents[c].assigned_tickets \o <<record.ticket_id>>
                       /\ agents'[c].current_priority_load
                              = RAdd(agents[c].current_priority_load,
                                     ticket_priority.priority_score)
                       /\ DOMAIN agents'[c] = DOMAIN agents[c]
                       /\ \A f \in DOMAIN agents[c] \ {"current_load", "assigned_tickets",
                                                       "current_priority_load"} :
                              agents'[c][f] = agents[c][f]
                       /\ \A i \in 1..Len(agents) \ {c} : agents'[i] = agents[i]]_vars
    /\ [](\A i \in 1..Len(agents) :
              DatasetLoad(agents[i]) = 0 =>
                  /\ agents[i].current_load = AssignedTo(agents[i].agent_id)
                  /\ Len(agents[i].assigned_tickets) = AssignedTo(agents[i].agent_id)
                  /\ AssignedTo(agents[i].agent_id) = 0
                         => agents[i].current_priority_load = RInt(0))

\* Two tickets were assigned to one agent that the dataset gave load 0, next
\* to an agent that got none: the first has load 2, two ticket ids and the
\* sum of two positive scores, the other is as it was loaded.
C20_Witness ==
    /\ pc = "idle" /\ runs = 1
    /\ Len(agents) = 2
    /\ \E c, o \in 1..2 :
           /\ c # o
           /\ DatasetLoad(agents[c]) = 0
           /\ agents[c].current_load = 2
           /\ Len(agents[c].assigned_tickets) = 2
           /\ RLt(RInt(0), agents[c].current_priority_load)
           /\ agents[o].current_load = DatasetLoad(agents[o])
           /\ agents[o].assigned_tickets = <<>>
           /\ agents[o].current_priority_load = RInt(0)

\* the tickets whose cached requirements hold the skill: generate_analytics
\* has left every ticket in the cache
Demand(skill) ==
    Cardinality({i \in 1..Len(tickets) :
                    skill \in DOMAIN skill_requirements_cache[tickets[i].ticket_id]})

\* the agents that hold the skill at proficiency 7 or more
Qualified(skill) ==
    Cardinality({i \in 1..Len(agents) :
                    /\ skill \in DOMAIN agents[i].skills
                    /\ agents[i].skills[skill] >= 7})

Demanded == {s \in {SkillOrder[k] : k \in 1..Len(SkillOrder)} : Demand(s) > 0}

\* where generate_analytics first meets the skill: the first ticket that
\* requires it, and its place in the lexicon
FirstMet(skill) ==
    << CHOOSE i \in 1..Len(tickets) :
           /\ skill \in DOMAIN skill_requirements_cache[tickets[i].ticket_id]
           /\ \A j \in 1..(i - 1) :
                  skill \notin DOMAIN skill_requirements_cache[tickets[j].ticket_id],
       CHOOSE k \in 1..Len(SkillOrder) : SkillOrder[k] = skill >>

\* the skills in greater demand, those of equal demand counting when met earlier
Ahead(skill) ==
    {t \in Demanded :
        \/ Demand(t) > Demand(skill)
        \/ /\ Demand(t) = Demand(skill)
           /\ \/ FirstMet(t)[1] < FirstMet(skill)[1]
              \/ FirstMet(t)[1] = FirstMet(skill)[1] /\ FirstMet(t)[2] < FirstMet(skill)[2]}

\* C19: what generate_analytics returned lists a skill in skill_gaps exactly
\* when the skill is among the 10 most demanded and fewer than 3 agents hold
\* it at proficiency 7 or more; it lists it once, with the number of tickets
\* that require it and the number of those agents.
C19_SkillGaps ==
    called = "generate_analytics" =>
        LET gaps == returned.skill_gaps
        IN  /\ {gaps[k].skill : k \in 1..Len(gaps)}
                   = {s \in Demanded : Cardinality(Ahead(s)) < 10 /\ Qualified(s) < 3}
            /\ \A k, l \in 1..Len(gaps) : gaps[k].skill = gaps[l].skill => k = l
            /\ \A k \in 1..Len(gaps) :
                   /\ gaps[k].demand = Demand(gaps[k].skill)
                   /\ gaps[k].qualified_agents = Qualified(gaps[k].skill)

\* Twelve skills are in demand.  Networking, required by two tickets and
\* held at 7 or more by two agents, is listed with demand 2 and 2 qualified
\* agents; Database_SQL, held at 7 or more by three, is not; Laptop_Repair,
\* held by none, is not among the first ten and is not listed.
C19_Witness ==
    /\ called = "generate_analytics"
    /\ Cardinality(Demanded) = 12
    /\ \E k \in 1..Len(returned.skill_gaps) :
           returned.skill_gaps[k]
               = [skill |-> "Networking", demand |-> 2, qualified_agents |-> 2]
    /\ Demand("Database_SQL") = 2 /\ Qualified("Database_SQL") = 3
    /\ Demand("Laptop_Repair") = 1 /\ Qualified("Laptop_Repair") = 0
    /\ \A k \in 1..Len(returned.skill_gaps) :
           returned.skill_gaps[k].skill \notin {"Database_SQL", "Laptop_Repair"}

(***************************************************************************)
(* Who writes the agents.                                                  *)
(***************************************************************************)
\* the step appends a record that assigns a ticket: lines 358-379
CommitStep ==
    /\ pc = "scan" /\ scanned = Len(agents)
    /\ Len(assignments') = Len(assignments) + 1
    /\ Truthy(assignments'[Len(assignments')].assigned_agent_id)

\* C21: the agents (with them each agent's current_load, assigned_tickets and
\* current_priority_load) change only in a step that loads a dataset or in
\* the commit step of assign_tickets, the one that appends an assigned
\* record.  The steps of calculate_ticket_priority (the enqueueing loop), of
\* calculate_agent_score and extract_required_skills (the scan of the agents
\* for the ticket in hand), of generate_analytics and of save_results leave
\* every agent as it was.
C21_OnlyCommitWritesAgents ==
    [][/\ agents' # agents => (loads' = loads + 1 \/ CommitStep)
       /\ pc = "enqueue" => agents' = agents
       /\ (pc = "scan" /\ scanned < Len(agents)) => agents' = agents
       /\ (pc = "idle" /\ pc' = "idle" /\ loads' = loads
             /\ called' \in {"generate_analytics", "save_results"})
            => agents' = agents]_vars

\* main has saved the results and asked for the analytics after a run over
\* two agents in which one agent got a ticket, whose three fields show it,
\* and the other got none.
C21_Witness ==
    /\ main.at = "summary"
    /\ called = "generate_analytics"
    /\ "output_result.json" \in DOMAIN files
    /\ \E c, o \in 1..Len(agents) :
           /\ agents[c].assigned_tickets # <<>>
           /\ RLt(RInt(0), agents[c].current_priority_load)
           /\ agents[o].assigned_tickets = <<>>
           /\ agents[o].current_priority_load = RInt(0)

(***************************************************************************)
(* Termination of assign_tickets.                                          *)
(***************************************************************************)
\* C22: assign_tickets terminates.  A step that starts an iteration of the
\* draining loop takes exactly one item off the heap; as long as the loop
\* runs no step puts one on; every time control is at the head of the loop
\* the iterations done (the records logged) and the items left add up to the
\* number of tickets, so the loop is left after as many iterations as there
\* are tickets, with one record in the log for each of them; and a call that
\* was entered returns.
C22_AssignTerminates ==
    /\ [][(pc = "drain" /\ pc' = "scan") =>
              /\ Len(ticket_priorities') = Len(ticket_priorities) - 1
              /\ ticket_priority' = ticket_priorities[1]]_vars
    /\ [][(pc = "drain" \/ pc = "scan") =>
              Len(ticket_priorities') <= Len(ticket_priorities)]_vars
    /\ [](pc = "drain" => Len(assignments) + Len(ticket_priorities) = Len(tickets))
    /\ [][(pc = "drain" /\ pc' = "idle") =>
              /\ ticket_priorities = <<>>
              /\ Len(assignments) = Len(tickets)
              /\ \A i \in 1..Len(tickets) :
                     \E k \in 1..Len(assignments) :
                         assignments[k].ticket_id = tickets[i].ticket_id]_vars
    /\ (pc = "enqueue") ~> (pc = "idle" /\ runs = 1)

\* assign_tickets has returned after two tickets went through the heap: both
\* were pushed, the heap is empty and the log has two records.
C22_Witness ==
    /\ pc = "idle" /\ runs = 1 /\ called = "assign_tickets"
    /\ enqueued = 2 /\ Len(tickets) = 2
    /\ ticket_priorities = <<>>
    /\ Len(assignments) = 2

(***************************************************************************)
(* skill_demand                                                            *)
(***************************************************************************)
\* the skills of the lexicon
Lexicon == {SkillOrder[i] : i \in 1..Len(SkillOrder)}

\* the loaded tickets whose text asks for the skill
Asking(skill) ==
    {i \in 1..Len(tickets) : skill \in DOMAIN ComputeRequiredSkills(tickets[i])}

\* the entries of the returned skill_demand that are about the skill
EntriesFor(skill) ==
    {k \in 1..Len(returned.skill_demand) : returned.skill_demand[k].skill = skill}

\* C23: what generate_analytics returns as skill_demand has, for every skill
\* of the lexicon that some loaded ticket asks for, exactly one entry, whose
\* demand is the number of loaded tickets asking for it, and no entry for a
\* skill nobody asks for; whether a ticket was assigned, left unassigned or
\* not looked at yet by assign_tickets makes no difference, and no demand
\* exceeds the number of tickets.
C23_SkillDemandCountsAllTickets ==
    called = "generate_analytics" =>
        /\ \A skill \in Lexicon :
               IF Asking(skill) = {}
               THEN EntriesFor(skill) = {}
               ELSE /\ Cardinality(EntriesFor(skill)) = 1
                    /\ \A k \in EntriesFor(skill) :
                           returned.skill_demand[k].demand = Cardinality(Asking(skill))
        /\ \A k \in 1..Len(returned.skill_demand) :
               /\ returned.skill_demand[k].skill \in Lexicon
               /\ returned.skill_demand[k].demand <= Len(tickets)

\* generate_analytics was called after a run that assigned three tickets, two
\* of which ask for the same skill, and reports that skill with demand 2.
C23_Witness ==
    /\ called = "generate_analytics"
    /\ runs = 1
    /\ Len(tickets) = 3
    /\ \A k \in 1..Len(assignments) : assignments[k].assigned_agent_id # None
    /\ \E skill \in Lexicon :
           /\ Cardinality(Asking(skill)) = 2
           /\ \E k \in EntriesFor(skill) : returned.skill_demand[k].demand = 2

(***************************************************************************)
(* recommendations                                                         *)
(***************************************************************************)
\* the loaded agents whose current_load is above 80% of max_load_per_agent
Overloaded ==
    {i \in 1..Len(agents) :
        RLt(RInt(80), RMul(Rat(agents[i].current_load, config.max_load_per_agent),
                           RInt(100)))}

\* what kind of recommendation the string is
IsUnassignedWarning(s) == Contains(" tickets remain unassigned", s)
IsSkillGapCallout(s)   == Contains("Critical skill gap: ", s)
IsOverloadCallout(s)   == Contains(" agents are over 80% capacity: ", s)

\* C24: the recommendations generate_analytics returns are, in this order,
\* the unassigned-ticket warning iff unassigned_tickets > 0, the skill-gap
\* callout naming the first skill gap iff skill_gaps is not empty, and the
\* overloaded-agent callout iff some loaded agent's current_load is above 80%
\* of max_load_per_agent; each is there or not independently of the others
\* and nothing else is in the list.
C24_Recommendations ==
    called = "generate_analytics" =>
        LET recs == returned.recommendations
            warn == IF returned.summary.unassigned_tickets > 0 THEN 1 ELSE 0
            gap  == IF returned.skill_gaps # <<>> THEN 1 ELSE 0
            over == IF Overloaded # {} THEN 1 ELSE 0
        IN  /\ Len(recs) = warn + gap + over
            /\ warn = 1 => IsUnassignedWarning(recs[1])
            /\ gap = 1 =>
                   /\ IsSkillGapCallout(recs[warn + 1])
                   /\ Contains(returned.skill_gaps[1].skill, recs[warn + 1])
            /\ over = 1 => IsOverloadCallout(recs[warn + gap + 1])

(***************************************************************************)
(* The rationale of an assigned record.                                    *)
(***************************************************************************)
\* the text starts with the prefix
StartsWith(text, prefix) ==
    Len(text) >= Len(prefix) /\ SubSeq(text, 1, Len(prefix)) = prefix

\* C25: the rationale of every record that assigns a ticket begins with
\* "Assigned to <name> (<id>)" where <name> and <id> are the record's
\* assigned_agent_name and assigned_agent_id, whatever the ticket and however
\* many agents were loaded.
C25_RationaleNamesAssignee ==
    \A k \in 1..Len(assignments) :
        Truthy(assignments[k].assigned_agent_id) =>
            StartsWith(assignments[k].rationale,
                       "Assigned to " \o assignments[k].assigned_agent_name
                           \o " (" \o assignments[k].assigned_agent_id \o ") - ")

(***************************************************************************)
(* agent_workload                                                          *)
(***************************************************************************)
\* C29: the agent_workload generate_analytics returns has as many entries as
\* there are loaded agents (summary.total_agents), and for every loaded agent
\* an entry under its name with its own current_load and its own rounded
\* current_priority_load, also when two agents have the same name.
C29_WorkloadEntryPerAgent ==
    called = "generate_analytics" =>
        /\ returned.summary.total_agents = Len(agents)
        /\ Len(returned.agent_workload) = returned.summary.total_agents
        /\ \A i \in 1..Len(agents) :
               \E k \in 1..Len(returned.agent_workload) :
                   /\ returned.agent_workload[k].name = agents[i].name
                   /\ returned.agent_workload[k].tickets_assigned = agents[i].current_load
                   /\ returned.agent_workload[k].priority_load
                          = RoundTo2(agents[i].current_priority_load)

(***************************************************************************)
(* run_system.main after validation.                                       *)
(***************************************************************************)
\* C30: when validate_data accepted the input, main does not leave by an
\* exception raised from the assignment on: neither a KeyError out of
\* assign_tickets, save_results or generate_analytics nor a
\* ZeroDivisionError out of the success rate of the summary, also when the
\* input has no tickets or no agents.
C30_AcceptedRunsToTheEnd ==
    validate_data(main.input) =>
        ~(main.at = "raised" /\ main.status \in {"KeyError", "ZeroDivisionError"})

(***************************************************************************)
(* An object that is loaded and run more than once.                        *)
(***************************************************************************)
\* assign_tickets has returned and nothing was called since
AfterRun == pc = "idle" /\ called = "assign_tickets" /\ runs >= 1

\* the ticket id is in the agent's assigned_tickets
Holds(agent, id) ==
    \E k \in 1..Len(agent.assigned_tickets) : agent.assigned_tickets[k] = id

\* the records of the log that assign a ticket
AssignedRecords ==
    {k \in 1..Len(assignments) : assignments[k].assigned_agent_id # None}

\* C26: after a run, a ticket id is in an agent's assigned_tickets iff the log
\* has a record of that ticket naming the agent; no ticket id is in the lists
\* of two agents; and the lengths of the lists add up to the number of records
\* that assign a ticket.
C26_LogMatchesAgentLists ==
    AfterRun =>
        /\ \A i \in 1..Len(agents) :
               /\ \A k \in AssignedRecords :
                      assignments[k].assigned_agent_id = agents[i].agent_id
                          => Holds(agents[i], assignments[k].ticket_id)
               /\ \A n \in 1..Len(agents[i].assigned_tickets) :
                      \E k \in AssignedRecords :
                          /\ assignments[k].ticket_id = agents[i].assigned_tickets[n]
                          /\ assignments[k].assigned_agent_id = agents[i].agent_id
        /\ \A i, j \in 1..Len(agents) :
               i # j => \A n \in 1..Len(agents[i].assigned_tickets) :
                            ~Holds(agents[j], agents[i].assigned_tickets[n])
        /\ RSum([i \in 1..Len(agents) |-> RInt(Len(agents[i].assigned_tickets))])
               = RInt(Cardinality(AssignedRecords))

\* the counts of priority_distribution added up
DistributionTotal(dist) ==
    LET RECURSIVE Total(_)
        Total(S) == IF S = {} THEN 0
                    ELSE LET p == CHOOSE q \in S : TRUE
                         IN  dist[p] + Total(S \ {p})
    IN  Total(DOMAIN dist)

\* C27: what generate_analytics returns once assign_tickets has completed,
\* after any calls of load_data and assign_tickets, has
\* assigned_tickets + unassigned_tickets = total_tickets in its summary and
\* priority_distribution counts that add up to total_tickets.
C27_SummaryAddsUp ==
    (called = "generate_analytics" /\ runs >= 1) =>
        /\ returned.summary.assigned_tickets + returned.summary.unassigned_tickets
               = returned.summary.total_tickets
        /\ DistributionTotal(returned.priority_distribution)
               = returned.summary.total_tickets

\* C28: in every state, the cache entry under the id of a loaded ticket is
\* the mapping the lexicon gives for the title and description that ticket
\* has now, also after load_data has replaced the tickets.
C28_CacheCoherent ==
    \A i \in 1..Len(tickets) :
        tickets[i].ticket_id \in DOMAIN skill_requirements_cache =>
            skill_requirements_cache[tickets[i].ticket_id]
                = ComputeRequiredSkills(tickets[i])

====
